---------------------------- MODULE Spec2Model ----------------------------
(***************************************************************************)
(* Model of EuropTry.py: the IRC bot's analysis pipeline                   *)
(* (IRCBotAdvanced), its serialized persistence layer (DatabaseManager)    *)
(* and the control-surface operations that touch them (BotControlApp).     *)
(*                                                                         *)
(* Threads of the program and their model counterparts:                    *)
(*   - the IRC reactor thread runs on_namreply / on_join / on_pubmsg /     *)
(*     on_privmsg one at a time (irc_pc and the irc locals);               *)
(*   - the analysis worker thread runs _analysis_worker (w_pc, w_user); *)
(*   - the database writer thread runs _database_writer (writer_alive);    *)
(*   - the Tk main thread runs toggle_user_targeting, send_message,        *)
(*     stop_bot (gui_pc, gui_user) and ends the process when mainloop returns.*)
(* Strings are sequences of one-character strings so that substring scans, *)
(* lower(), lstrip() and capitalize() are computed, not assumed.           *)
(* Optional values (None | value) are <<>> | <<value>>.                    *)
(***************************************************************************)
EXTENDS Integers, Sequences, FiniteSets, TLC

(* ------------------------------ bounds -------------------------------- *)

\* queue.Queue(maxsize=50) in the source; the model runs the same code
\* with a smaller capacity so that the full-queue branch is reachable.
AnalysisQueueMaxSize == 2

\* write_queue is unbounded in the source; submitters are only scheduled
\* while fewer than this many intents are pending.
MaxWriteQueue == 2

\* the transport log counts the opening messages sent to a handle up to
\* this number.
MaxOpenings == 2

\* number of interaction records (stored or pending) the runs are cut at.
MaxConversations == 1

\* get_conversation_history(username, 5) in the source; the model runs the
\* same query with a smaller limit so that a history longer than the limit
\* is reachable.
HistoryLimit == 2

\* number of interaction records (stored or pending) the runs with a
\* stored history are cut at.
MaxHistory == 4

\* the clock of the runs that advance it stops at this value.
MaxClock == 2

\* datetime.now().year
CurrentYear == 2026

(* ------------------------- program constants -------------------------- *)

SemaphoreCapacity == 3
NamesLimit == 20

(* ------------------------------ options ------------------------------- *)

None == <<>>
Some(x) == <<x>>

(* ------------------------------ strings ------------------------------- *)

LowerAlphabet == <<"a","b","c","d","e","f","g","h","i","j","k","l","m","n","o","p","q","r","s","t","u","v","w","x","y","z">>
UpperAlphabet == <<"A","B","C","D","E","F","G","H","I","J","K","L","M","N","O","P","Q","R","S","T","U","V","W","X","Y","Z">>
Digits == <<"0","1","2","3","4","5","6","7","8","9">>

LowerChar(c) ==
  IF \E i \in 1..26 : UpperAlphabet[i] = c
    THEN LowerAlphabet[CHOOSE i \in 1..26 : UpperAlphabet[i] = c]
    ELSE c

UpperChar(c) ==
  IF \E i \in 1..26 : LowerAlphabet[i] = c
    THEN UpperAlphabet[CHOOSE i \in 1..26 : LowerAlphabet[i] = c]
    ELSE c

\* str.lower()
Lower(s) == [i \in 1..Len(s) |-> LowerChar(s[i])]

\* str.capitalize()
Capitalize(s) ==
  [i \in 1..Len(s) |-> IF i = 1 THEN UpperChar(s[i]) ELSE LowerChar(s[i])]

\* `sub in s`
Contains(s, sub) ==
  \E i \in 1..(Len(s) - Len(sub) + 1) : SubSeq(s, i, i + Len(sub) - 1) = sub

\* str(n) for n >= 0
RECURSIVE IntToStr(_)
IntToStr(n) ==
  IF n < 10 THEN <<Digits[n + 1]>>
  ELSE IntToStr(n \div 10) \o <<Digits[(n % 10) + 1]>>

RolePrefixes == {"@", "+", "%", "&", "~"}

\* a strip of one leading role prefix only
LStripOne(s) == IF s # <<>> /\ s[1] \in RolePrefixes THEN Tail(s) ELSE s

\* name.lstrip('@+%&~')
RECURSIVE LStrip(_)
LStrip(s) ==
  IF s # <<>> /\ s[1] \in RolePrefixes THEN LStrip(Tail(s)) ELSE s

\* first element of the ordered list `xs` satisfying Test, as an option
RECURSIVE FirstInList(_, _, _)
FirstInList(xs, s, i) ==
  IF i > Len(xs) THEN None
  ELSE IF Contains(s, xs[i]) THEN Some(xs[i])
  ELSE FirstInList(xs, s, i + 1)

\* first n in lo..hi-1 (ascending, as range(lo, hi)) with str(n) in s:
\* the least such n
FirstInRange(lo, hi, s) ==
  LET hits == {n \in lo..(hi - 1) : Contains(s, IntToStr(n))}
  IN IF hits = {} THEN None
     ELSE Some(CHOOSE n \in hits : \A m \in hits : n <= m)

(* ------------------------ profile derivation -------------------------- *)

male_indicators ==
  << <<"a","l","e","x">>, <<"m","a","x">>, <<"t","o","m">>,
     <<"b","e","n">>, <<"s","a","m">>, <<"m","i","k","e">>,
     <<"d","a","v","e">>, <<"j","o","h","n">>, <<"p","a","u","l">>,
     <<"m","a","r","c">>, <<"p","i","e","r","r","e">>, <<"j","e","a","n">> >>

female_indicators ==
  << <<"a","n","n","a">>, <<"l","i","s","a">>, <<"e","m","m","a">>,
     <<"s","a","r","a">>, <<"j","u","l","i","e">>, <<"m","a","r","i","e">>,
     <<"c","h","l","o","e">>, <<"l","e","a">>, <<"n","i","n","a">>,
     <<"e","v","a">>, <<"s","o","p","h","i","e">>, <<"c","l","a","i","r","e">> >>

cities ==
  << <<"p","a","r","i","s">>, <<"l","y","o","n">>, <<"m","a","r","s","e","i","l","l","e">>,
     <<"t","o","u","l","o","u","s","e">>, <<"n","i","c","e">>, <<"n","a","n","t","e","s">>,
     <<"s","t","r","a","s","b","o","u","r","g">>, <<"b","o","r","d","e","a","u","x">>, <<"l","i","l","l","e">>,
     <<"r","e","n","n","e","s">> >>

Homme == <<"H","o","m","m","e">>
Femme == <<"F","e","m","m","e">>
Tous == <<"T","o","u","s">>

BirthYearFrom == 1980
BirthYearTo == 2010
DirectAgeFrom == 18
DirectAgeTo == 100

\* the female list scanned before the male list
DeriveGenderFemaleFirst(username) ==
  IF FirstInList(female_indicators, Lower(username), 1) # None THEN Some(Femme)
  ELSE IF FirstInList(male_indicators, Lower(username), 1) # None THEN Some(Homme)
  ELSE None

\* result['gender']
DeriveGender(username) ==
  IF FirstInList(male_indicators, Lower(username), 1) # None THEN Some(Homme)
  ELSE IF FirstInList(female_indicators, Lower(username), 1) # None THEN Some(Femme)
  ELSE None

\* the direct-age scan run before the birth-year scan
DeriveAgeDirectFirst(username) ==
  LET direct == FirstInRange(DirectAgeFrom, DirectAgeTo, username)
      year   == FirstInRange(BirthYearFrom, BirthYearTo, username)
  IN IF direct # None THEN direct
     ELSE IF year # None THEN Some(CurrentYear - year[1])
     ELSE None

\* result['age']
DeriveAge(username) ==
  LET year == FirstInRange(BirthYearFrom, BirthYearTo, username)
  IN IF year # None THEN Some(CurrentYear - year[1])
     ELSE FirstInRange(DirectAgeFrom, DirectAgeTo, username)

\* result['city']
DeriveCity(username) ==
  LET c == FirstInList(cities, Lower(username), 1)
  IN IF c # None THEN Some(Capitalize(c[1])) ELSE None

\* _analyze_username: the dict `result`, an absent key being None
analyze_username(username) ==
  [gender |-> DeriveGender(username),
   age    |-> DeriveAge(username),
   city   |-> DeriveCity(username)]

(* ----------------------------- profiles ------------------------------- *)

\* UserProfile(username=username): the dataclass defaults
UserProfile(username) ==
  [username |-> username, age |-> None, gender |-> None, city |-> None,
   last_seen |-> None, conversation_count |-> 0, targeted |-> FALSE,
   whois_info |-> None]

\* Python truth value of an Optional[int]: None and 0 are false
TruthyInt(o) == o # None /\ o[1] # 0

\* Python truth value of an Optional[str]: None and "" are false
TruthyStr(o) == o # None /\ o[1] # <<>>

matches_targeting_criteria_exclusive(user_profile, criteria) ==
  IF TruthyInt(user_profile.age)
     /\ ~(criteria.age_min < user_profile.age[1]
          /\ user_profile.age[1] < criteria.age_max)
    THEN FALSE
  ELSE IF criteria.gender # Tous /\ TruthyStr(user_profile.gender)
          /\ user_profile.gender[1] # criteria.gender
    THEN FALSE
  ELSE TRUE

\* _matches_targeting_criteria
matches_targeting_criteria(user_profile, criteria) ==
  IF TruthyInt(user_profile.age)
     /\ ~(criteria.age_min <= user_profile.age[1]
          /\ user_profile.age[1] <= criteria.age_max)
    THEN FALSE
  ELSE IF criteria.gender # Tous /\ TruthyStr(user_profile.gender)
          /\ user_profile.gender[1] # criteria.gender
    THEN FALSE
  ELSE TRUE

MergeAnalyzedDerivedWins(user_profile, analyzed_info) ==
  [user_profile EXCEPT
     !.age    = IF TruthyInt(analyzed_info.age) THEN analyzed_info.age ELSE @,
     !.gender = IF TruthyStr(analyzed_info.gender)
                  THEN analyzed_info.gender ELSE @,
     !.city   = IF TruthyStr(analyzed_info.city) THEN analyzed_info.city ELSE @]

\* the merge of _analyze_user: a derived value fills only a falsy attribute
MergeAnalyzed(user_profile, analyzed_info) ==
  [user_profile EXCEPT
     !.age    = IF ~TruthyInt(@) /\ TruthyInt(analyzed_info.age)
                  THEN analyzed_info.age ELSE @,
     !.gender = IF ~TruthyStr(@) /\ TruthyStr(analyzed_info.gender)
                  THEN analyzed_info.gender ELSE @,
     !.city   = IF ~TruthyStr(@) /\ TruthyStr(analyzed_info.city)
                  THEN analyzed_info.city ELSE @]

(* --------------------------- DatabaseManager -------------------------- *)

\* the tuple `data` built by save_user_profile at time ts
SaveUserData(user_profile, ts) ==
  [username           |-> user_profile.username,
   age                |-> user_profile.age,
   gender             |-> user_profile.gender,
   city               |-> user_profile.city,
   last_seen          |-> IF user_profile.last_seen # None
                            THEN user_profile.last_seen[1] ELSE ts,
   conversation_count |-> user_profile.conversation_count,
   targeted           |-> user_profile.targeted,
   whois_info         |-> None,
   created_at         |-> ts]

\* the tuple `data` built by save_conversation at time ts
SaveConversationData(username, message, bot_response, ts) ==
  [username |-> username, message |-> message, timestamp |-> ts,
   bot_response |-> bot_response, prompt_used |-> <<>>, sentiment |-> 0]

PutSaveUserFront(q, user_profile, ts) ==
  <<<<"save_user", SaveUserData(user_profile, ts)>>>> \o q

\* write_queue.put(('save_user', data)): the queue has no maxsize
PutSaveUser(q, user_profile, ts) ==
  Append(q, <<"save_user", SaveUserData(user_profile, ts)>>)

\* write_queue.put(('save_conversation', data))
PutSaveConversation(q, username, message, bot_response, ts) ==
  Append(q, <<"save_conversation",
              SaveConversationData(username, message, bot_response, ts)>>)

\* INSERT OR IGNORE INTO users: an existing row is kept
ExecuteOnUsersKeepFirst(tbl, operation, data) ==
  IF operation = "save_user" /\ data.username \notin DOMAIN tbl
    THEN [u \in DOMAIN tbl \cup {data.username} |->
            IF u = data.username THEN data ELSE tbl[u]]
    ELSE tbl

\* INSERT OR REPLACE INTO users: username is the primary key
ExecuteOnUsers(tbl, operation, data) ==
  IF operation = "save_user"
    THEN [u \in DOMAIN tbl \cup {data.username} |->
            IF u = data.username THEN data ELSE tbl[u]]
    ELSE tbl

\* a table that keeps the latest interaction only
ExecuteOnConversationsKeepLast(tbl, operation, data) ==
  IF operation = "save_conversation" THEN <<data>> ELSE tbl

\* INSERT INTO conversations: a new row with the next autoincrement id
ExecuteOnConversations(tbl, operation, data) ==
  IF operation = "save_conversation" THEN Append(tbl, data) ELSE tbl

\* SELECT message, bot_response, timestamp of the row at position i
HistoryRow(tbl, i) ==
  [message      |-> tbl[i].message,
   bot_response |-> tbl[i].bot_response,
   timestamp    |-> tbl[i].timestamp]

\* the orders in which ORDER BY timestamp DESC LIMIT n may return the rows
\* at the positions `matching`: rows of equal timestamp come in any order
OrderByTimestampDesc(tbl, matching, n) ==
  LET k == IF Cardinality(matching) < n THEN Cardinality(matching) ELSE n
  IN {s \in [1..k -> matching] :
        /\ \A i, j \in 1..k : i < j =>
              /\ s[i] # s[j]
              /\ tbl[s[i]].timestamp >= tbl[s[j]].timestamp
        /\ \A m \in matching : (\A i \in 1..k : s[i] # m) =>
              \A i \in 1..k : tbl[m].timestamp <= tbl[s[i]].timestamp}

\* the query returning the rows in id order: ORDER BY id LIMIT n
get_conversation_history_by_id(tbl, username, limit, ok) ==
  IF ok
    THEN LET matching == SelectSeq([i \in 1..Len(tbl) |-> i],
                                   LAMBDA i : tbl[i].username = username)
             k == IF Len(matching) < limit THEN Len(matching) ELSE limit
         IN {[i \in 1..k |-> HistoryRow(tbl, matching[i])]}
    ELSE {<< >>}

\* get_conversation_history: the lists fetchall() may return; the except
\* clause returns []
get_conversation_history(tbl, username, limit, ok) ==
  IF ok
    THEN LET matching == {i \in 1..Len(tbl) : tbl[i].username = username}
         IN {[i \in DOMAIN s |-> HistoryRow(tbl, s[i])] :
               s \in OrderByTimestampDesc(tbl, matching, limit)}
    ELSE {<< >>}

get_user_profile_anonymous(tbl, username, ok) ==
  IF ok /\ username \in DOMAIN tbl
    THEN [username           |-> tbl[username].username,
          age                |-> tbl[username].age,
          gender             |-> tbl[username].gender,
          city               |-> tbl[username].city,
          last_seen          |-> Some(tbl[username].last_seen),
          conversation_count |-> tbl[username].conversation_count,
          targeted           |-> tbl[username].targeted,
          whois_info         |-> None]
    ELSE UserProfile(<<>>)

\* get_user_profile; ok = FALSE is the sqlite error caught at line 253
get_user_profile(tbl, username, ok) ==
  IF ok /\ username \in DOMAIN tbl
    THEN [username           |-> tbl[username].username,
          age                |-> tbl[username].age,
          gender             |-> tbl[username].gender,
          city               |-> tbl[username].city,
          last_seen          |-> Some(tbl[username].last_seen),
          conversation_count |-> tbl[username].conversation_count,
          targeted           |-> tbl[username].targeted,
          whois_info         |-> None]
    ELSE UserProfile(username)

(* -------------------------- the environment --------------------------- *)

BotNickname == <<"b","o","t">>
Tom   == <<"t","o","m">>
Lea25 == <<"l","e","a","2","5">>
Max   == <<"m","a","x">>
Zed   == <<"z","e","d">>
Anna1990Lyon == <<"A","n","n","a","1","9","9","0","L","y","o","n">>

Alex1990Paris07 ==
  <<"a","l","e","x","1","9","9","0","p","a","r","i","s","0","7">>
AnnaMax == <<"A","n","n","a","M","a","x">>
Kim45_23 == <<"k","i","m","4","5","_","2","3">>
Kim1995_1985 == <<"k","i","m","1","9","9","5","_","1","9","8","5">>

\* the members of a crowded channel besides lea25: toma, tomb, ...
CrowdSize == 22
CrowdMember(i) == Tom \o <<LowerAlphabet[i]>>
CrowdHandles == {CrowdMember(i) : i \in 1..CrowdSize}

\* every nickname the runs use, the bot included
Nicks ==
  {Tom, Lea25, Max, Zed, Anna1990Lyon, Alex1990Paris07, AnnaMax, Kim45_23,
   Kim1995_1985, BotNickname} \cup CrowdHandles

\* the users of the runs that check what a handle yields: a female
\* indicator with an age, no indicator, a mixed-case handle with a birth
\* year and a city, indicators of both genders, two ages, two birth years
DeriveHandles ==
  {Lea25, Zed, Anna1990Lyon, Alex1990Paris07, AnnaMax, Kim45_23,
   Kim1995_1985}

\* the populations of the channel the runs start from
SmallChannel == {Lea25, BotNickname}
MediumChannel == {Tom, Lea25, BotNickname}
LargeChannel == {Tom, Lea25, Max, BotNickname}
CrowdedChannel == {Lea25, BotNickname} \cup CrowdHandles

\* the nickname the server has decorated with role prefixes
Undecorated(name) ==
  LET plain == {k \in 1..Len(name) : name[k] \notin RolePrefixes}
  IN IF plain = {} THEN << >>
     ELSE SubSeq(name, CHOOSE k \in plain : \A j \in plain : k <= j,
                 Len(name))

\* the snapshot of the crowded channel: its operator, then the members
CrowdSnapshot ==
  << <<"@">> \o Lea25 >> \o [i \in 1..CrowdSize |-> CrowdMember(i)]

\* event.arguments[2].split() of the membership snapshots the server sends
AllSnapshots ==
  { << <<"@">> \o Lea25, BotNickname >>,
    << <<"@">> \o Tom, Lea25 >>,
    << <<"~","@">> \o Lea25, <<"+">> \o Max, Max, Tom >>,
    CrowdSnapshot }

\* bot_profile.target_criteria as built by start_bot
TargetCriteria == [age_min |-> 18, age_max |-> 35, gender |-> Femme]

\* the criteria the control surface is configured with in the runs that
\* vary them: two age ranges, a gender or 'Tous'
CriteriaSet ==
  {[age_min |-> r[1], age_max |-> r[2], gender |-> g] :
     r \in {<<18, 35>>, <<25, 40>>}, g \in {Tous, Femme}}

\* the users whose stored profile varies in those runs
ProfileHandles == {Lea25, Zed, Anna1990Lyon}

\* rows of the users table left by earlier sessions: ages, genders and
\* cities as _analyze_username produces them, or NULL
StoredAges == {None, Some(17), Some(25), Some(40)}
StoredGenders == {None, Some(Homme), Some(Femme)}
StoredCities == {None, Some(<<"N","i","c","e">>)}

StoredRows(u) ==
  {[username |-> u, age |-> a, gender |-> g, city |-> c, last_seen |-> 0,
    conversation_count |-> n, targeted |-> FALSE, whois_info |-> None,
    created_at |-> 0] :
     a \in StoredAges, g \in StoredGenders, c \in StoredCities, n \in {0, 1}}

\* outcomes of a sqlite3 call: TRUE = success, FALSE = an exception
StorageOutcomes == {TRUE, FALSE}
StorageUp == {TRUE}

\* whether a step inside a try block raises
FaultOutcomes == {TRUE, FALSE}
NoFault == {FALSE}

Threads == {"irc", "worker", "gui", "writer"}

\* threads whose last log message (log_message, logger.error) is observed
Loggers == {"irc", "worker", "writer"}

VARIABLES
  users,                   \* table users: username -> row
  conversations,           \* table conversations, in id order
  write_queue,             \* DatabaseManager.write_queue
  writer_alive,            \* the writer thread is running
  users_being_analyzed,    \* IRCBotAdvanced.users_being_analyzed
  analysis_queue,          \* IRCBotAdvanced.analysis_queue (usernames)
  analysis_semaphore,      \* free permits of analysis_semaphore
  analysis_worker_started, \* hasattr(self, 'analysis_worker_started')
  connection_lock,         \* holder of _connection_lock, or "free"
  connected,               \* connection.is_connected()
  sending,                 \* threads inside connection.privmsg
  openings,                \* opening messages handed to the transport
  w_pc, w_user, w_profile, w_message,
  irc_pc, irc_names, irc_nick, irc_profile, irc_response, irc_context,
  gui_pc, gui_user, gui_profile,
  last_log,                \* source tag of each thread's last log_message
  now,                     \* datetime.now()
  bot_instance,            \* BotControlApp.bot_instance is not None
  channel_nicks,           \* the nicknames present on the server
  target_criteria,         \* bot_profile.target_criteria
  process_alive            \* the interpreter has not exited

db_vars   == <<users, conversations, write_queue, writer_alive>>
bot_vars  == <<users_being_analyzed, analysis_queue, analysis_semaphore,
               analysis_worker_started>>
conn_vars == <<connection_lock, connected, sending, openings>>
w_vars    == <<w_pc, w_user, w_profile, w_message>>
irc_vars  == <<irc_pc, irc_names, irc_nick, irc_profile, irc_response,
               irc_context>>
gui_vars  == <<gui_pc, gui_user, gui_profile>>
env_vars  == <<now, bot_instance, channel_nicks, target_criteria,
               process_alive>>

vars == <<db_vars, bot_vars, conn_vars, w_vars, irc_vars, gui_vars,
          last_log, env_vars>>

NoProfile == UserProfile(<<>>)

\* snapshots made of nicknames that are present
Snapshots ==
  {names \in AllSnapshots :
     \A i \in 1..Len(names) : Undecorated(names[i]) \in channel_nicks}

\* nicknames whose public and private messages are delivered
Talkers == channel_nicks \cap {Lea25, BotNickname}

\* app.log_message(source, ...) called by thread t
Log(t, source) ==
  last_log' = IF t \in Loggers THEN [last_log EXCEPT ![t] = source]
              ELSE last_log

\* submitters are scheduled only while the pending intents are below the bound
CanSubmit == Len(write_queue) < MaxWriteQueue

(* ----------------------- DatabaseManager writer ----------------------- *)

\* a writer whose thread ends at the first failing operation
DatabaseWriterDies(outcomes) ==
  /\ process_alive /\ writer_alive
  /\ write_queue # << >>
  /\ LET operation == Head(write_queue)[1]
         data      == Head(write_queue)[2]
     IN \E ok \in outcomes :
          /\ users' = IF ok THEN ExecuteOnUsers(users, operation, data)
                      ELSE users
          /\ conversations' =
               IF ok THEN ExecuteOnConversations(conversations, operation, data)
               ELSE conversations
          /\ IF ok THEN UNCHANGED last_log ELSE Log("writer", "error")
          /\ writer_alive' = ok
  /\ write_queue' = Tail(write_queue)
  /\ UNCHANGED <<bot_vars, conn_vars, w_vars, irc_vars, gui_vars, env_vars>>

\* one iteration of _database_writer: get, _execute_write_operation;
\* a failing operation is reported by logger.error only
DatabaseWriter(outcomes) ==
  /\ process_alive /\ writer_alive
  /\ write_queue # << >>
  /\ LET operation == Head(write_queue)[1]
         data      == Head(write_queue)[2]
     IN \E ok \in outcomes :
          /\ users' = IF ok THEN ExecuteOnUsers(users, operation, data)
                      ELSE users
          /\ conversations' =
               IF ok THEN ExecuteOnConversations(conversations, operation, data)
               ELSE conversations
          /\ IF ok THEN UNCHANGED last_log ELSE Log("writer", "error")
  /\ write_queue' = Tail(write_queue)
  /\ UNCHANGED <<writer_alive, bot_vars, conn_vars, w_vars, irc_vars,
                 gui_vars, env_vars>>

(* --------------------------- intake (IRC) ----------------------------- *)

\* the body of `if clean_name not in users_being_analyzed:` shared by
\* on_namreply and on_join: add, then put(block=False)
Admitted(q, nick) == Append(q, nick)

QueueFullOffByOne(q) == Len(q) > AnalysisQueueMaxSize

\* put(block=False) raises queue.Full
QueueFull(q) == Len(q) >= AnalysisQueueMaxSize

NotInFlightAlways(nick, set) == TRUE

\* `clean_name not in self.users_being_analyzed`
NotInFlight(nick, set) == nick \notin set

NamreplyBeginWhole ==
  /\ process_alive /\ bot_instance /\ irc_pc = "idle"
  /\ \E names \in Snapshots : irc_names' = names
  /\ irc_pc' = "namreply"
  /\ Log("irc", "Systeme")
  /\ UNCHANGED <<db_vars, bot_vars, conn_vars, w_vars, irc_nick, irc_profile,
                 irc_response, irc_context, gui_vars, env_vars>>

\* on_namreply, up to the loop: names[:20]
NamreplyBegin ==
  /\ process_alive /\ bot_instance /\ irc_pc = "idle"
  /\ \E names \in Snapshots :
       irc_names' = SubSeq(names, 1, IF Len(names) < NamesLimit
                                       THEN Len(names) ELSE NamesLimit)
  /\ irc_pc' = "namreply"
  /\ Log("irc", "Systeme")
  /\ UNCHANGED <<db_vars, bot_vars, conn_vars, w_vars, irc_nick, irc_profile,
                 irc_response, irc_context, gui_vars, env_vars>>

\* one iteration of the loop of on_namreply
NamreplyName ==
  /\ process_alive /\ irc_pc = "namreply" /\ irc_names # << >>
  /\ LET clean_name == LStrip(Head(irc_names))
     IN IF clean_name # BotNickname
           /\ NotInFlight(clean_name, users_being_analyzed)
          THEN /\ users_being_analyzed' = users_being_analyzed \cup {clean_name}
               /\ IF QueueFull(analysis_queue)
                    THEN /\ Log("irc", "Warning")
                         /\ irc_names' = << >>
                         /\ UNCHANGED analysis_queue
                    ELSE /\ analysis_queue' = Admitted(analysis_queue, clean_name)
                         /\ irc_names' = Tail(irc_names)
                         /\ UNCHANGED last_log
          ELSE /\ irc_names' = Tail(irc_names)
               /\ UNCHANGED <<users_being_analyzed, analysis_queue, last_log>>
  /\ UNCHANGED <<db_vars, analysis_semaphore, analysis_worker_started,
                 conn_vars, w_vars, irc_pc, irc_nick, irc_profile, irc_response,
                 irc_context, gui_vars, env_vars>>

NamreplyEndRestarts ==
  /\ process_alive /\ irc_pc = "namreply" /\ irc_names = << >>
  /\ analysis_worker_started' = ~analysis_worker_started
  /\ irc_pc' = "idle"
  /\ UNCHANGED <<db_vars, users_being_analyzed, analysis_queue,
                 analysis_semaphore, conn_vars, w_vars, irc_names, irc_nick,
                 irc_profile, irc_response, irc_context, gui_vars, last_log,
                 env_vars>>

\* the end of on_namreply: start the analysis worker once
NamreplyEnd ==
  /\ process_alive /\ irc_pc = "namreply" /\ irc_names = << >>
  /\ analysis_worker_started' = TRUE
  /\ irc_pc' = "idle"
  /\ UNCHANGED <<db_vars, users_being_analyzed, analysis_queue,
                 analysis_semaphore, conn_vars, w_vars, irc_names, irc_nick,
                 irc_profile, irc_response, irc_context, gui_vars, last_log,
                 env_vars>>

OnJoinAnyNick ==
  /\ process_alive /\ bot_instance /\ irc_pc = "idle"
  /\ \E nick \in channel_nicks :
       IF NotInFlight(nick, users_being_analyzed)
         THEN /\ users_being_analyzed' = users_being_analyzed \cup {nick}
              /\ IF QueueFull(analysis_queue)
                   THEN /\ Log("irc", "Warning")
                        /\ UNCHANGED analysis_queue
                   ELSE /\ analysis_queue' = Admitted(analysis_queue, nick)
                        /\ Log("irc", "Systeme")
         ELSE /\ Log("irc", "Systeme")
              /\ UNCHANGED <<users_being_analyzed, analysis_queue>>
  /\ UNCHANGED <<db_vars, analysis_semaphore, analysis_worker_started,
                 conn_vars, w_vars, irc_vars, gui_vars, env_vars>>

\* on_join
OnJoin ==
  /\ process_alive /\ bot_instance /\ irc_pc = "idle"
  /\ \E nick \in channel_nicks :
       IF nick # BotNickname
         THEN IF NotInFlight(nick, users_being_analyzed)
                THEN /\ users_being_analyzed' = users_being_analyzed \cup {nick}
                     /\ IF QueueFull(analysis_queue)
                          THEN /\ Log("irc", "Warning")
                               /\ UNCHANGED analysis_queue
                          ELSE /\ analysis_queue' = Admitted(analysis_queue, nick)
                               /\ Log("irc", "Systeme")
                ELSE /\ Log("irc", "Systeme")
                     /\ UNCHANGED <<users_being_analyzed, analysis_queue>>
         ELSE UNCHANGED <<users_being_analyzed, analysis_queue, last_log>>
  /\ UNCHANGED <<db_vars, analysis_semaphore, analysis_worker_started,
                 conn_vars, w_vars, irc_vars, gui_vars, env_vars>>

(* -------------------------- analysis worker --------------------------- *)

\* the permit taken by `with self.analysis_semaphore`
SemAcquire(n) == n - 1

SemReleaseNone(n) == n

\* the permit returned when the `with` block is left
SemRelease(n) == n + 1

DiscardNothing(set, username) == set

\* users_being_analyzed.discard(username) in the finally clause
Discard(set, username) == set \ {username}

\* a worker that takes the task admitted last
WorkerGetLast ==
  /\ process_alive /\ analysis_worker_started /\ w_pc = "idle"
  /\ analysis_queue # << >>
  /\ analysis_semaphore > 0
  /\ w_user' = analysis_queue[Len(analysis_queue)]
  /\ analysis_queue' = SubSeq(analysis_queue, 1, Len(analysis_queue) - 1)
  /\ analysis_semaphore' = SemAcquire(analysis_semaphore)
  /\ w_pc' = "read"
  /\ UNCHANGED <<db_vars, users_being_analyzed, analysis_worker_started,
                 conn_vars, w_profile, w_message, irc_vars, gui_vars, last_log,
                 env_vars>>

\* _analysis_worker: analysis_queue.get, then enter the semaphore
WorkerGet ==
  /\ process_alive /\ analysis_worker_started /\ w_pc = "idle"
  /\ analysis_queue # << >>
  /\ analysis_semaphore > 0
  /\ w_user' = Head(analysis_queue)
  /\ analysis_queue' = Tail(analysis_queue)
  /\ analysis_semaphore' = SemAcquire(analysis_semaphore)
  /\ w_pc' = "read"
  /\ UNCHANGED <<db_vars, users_being_analyzed, analysis_worker_started,
                 conn_vars, w_profile, w_message, irc_vars, gui_vars, last_log,
                 env_vars>>

\* _analyze_user, lines 503-505: log, get_user_profile, last_seen = now
WorkerRead(faults, reads) ==
  /\ process_alive /\ w_pc = "read"
  /\ \E fault \in faults :
       IF fault
         THEN /\ w_pc' = "except"
              /\ UNCHANGED <<w_profile, last_log>>
         ELSE /\ \E ok \in reads :
                   w_profile' = [get_user_profile(users, w_user, ok)
                                   EXCEPT !.last_seen = Some(now)]
              /\ w_pc' = "save"
              /\ Log("worker", "Analyse")
  /\ UNCHANGED <<db_vars, bot_vars, conn_vars, w_user, w_message, irc_vars,
                 gui_vars, env_vars>>

\* analyzed_info = self._analyze_username(username), line 508, tabulated
\* for the handles of the model
analyzed_info == [username \in Nicks |-> analyze_username(username)]

\* an analysis that keeps the targeted flag it read
AnalyzedProfileKeepsFlag(user_profile, username) ==
  MergeAnalyzed(user_profile, analyzed_info[username])

\* the profile _analyze_user submits: merge, then the targeted flag
AnalyzedProfile(user_profile, username) ==
  LET merged == MergeAnalyzed(user_profile, analyzed_info[username])
  IN [merged EXCEPT
        !.targeted = matches_targeting_criteria(merged, target_criteria)]

ShouldInitiateTargeted(user_profile) == user_profile.targeted

ShouldInitiateUpToOne(user_profile) ==
  user_profile.targeted /\ user_profile.conversation_count <= 1

\* the condition of line 525
ShouldInitiate(user_profile) ==
  user_profile.targeted /\ user_profile.conversation_count = 0

\* _analyze_user, lines 508-525: derive, merge, save_user_profile,
\* root.after (which may raise outside the main loop), the engagement test
WorkerSave(faults) ==
  /\ process_alive /\ w_pc = "save"
  /\ CanSubmit
  /\ LET p == AnalyzedProfile(w_profile, w_user)
     IN /\ w_profile' = p
        /\ write_queue' = PutSaveUser(write_queue, p, now)
        /\ \E fault \in faults :
             w_pc' = IF fault THEN "except"
                     ELSE IF ShouldInitiate(p) THEN "initiate"
                     ELSE "finally"
  /\ UNCHANGED <<users, conversations, writer_alive, bot_vars, conn_vars,
                 w_user, w_message, irc_vars, gui_vars, last_log, env_vars>>

\* a counter of the transport log, saturating at its bound
CountUpTo(n, max) == IF n < max THEN n + 1 ELSE max

\* the candidate set of _initiate_conversation
opening_messages(user_profile) ==
  {"Salut_comment_ca_va", "Hello_souvent_sur_ce_salon",
   "Coucou_belle_journee", "Salut_tu_fais_quoi"}
  \cup (IF TruthyStr(user_profile.city) THEN {"Salut_tu_es_de_city"} ELSE {})
  \cup (IF TruthyInt(user_profile.age) /\ 18 <= user_profile.age[1]
           /\ user_profile.age[1] <= 25
          THEN {"Hey_tu_es_etudiant"} ELSE {})

\* _initiate_conversation, lines 601-623: connection test, random.choice,
\* take _connection_lock and enter connection.privmsg
WorkerInitiate ==
  /\ process_alive /\ w_pc = "initiate"
  /\ IF ~connected
       THEN /\ Log("worker", "Erreur")
            /\ w_pc' = "finally"
            /\ UNCHANGED <<connection_lock, sending, w_message>>
       ELSE /\ connection_lock = "free"
            /\ \E message \in opening_messages(w_profile) : w_message' = message
            /\ connection_lock' = "worker"
            /\ sending' = sending \cup {"worker"}
            /\ w_pc' = "sending"
            /\ UNCHANGED last_log
  /\ UNCHANGED <<db_vars, bot_vars, connected, openings, w_user,
                 w_profile, irc_vars, gui_vars, env_vars>>

\* conversation_count += 1 of line 625
CountEngagement(user_profile) ==
  [user_profile EXCEPT !.conversation_count = @ + 1]

WorkerSendCountsFirst ==
  /\ process_alive /\ w_pc = "sending"
  /\ connection_lock' = "free"
  /\ sending' = sending \ {"worker"}
  /\ w_pc' = "finally"
  /\ CanSubmit
  /\ w_profile' = CountEngagement(w_profile)
  /\ write_queue' = PutSaveUser(write_queue, CountEngagement(w_profile), now)
  /\ IF connected
       THEN /\ openings' = [openings EXCEPT ![w_user] = CountUpTo(@, MaxOpenings)]
            /\ Log("worker", "Bot")
       ELSE /\ Log("worker", "Erreur")
            /\ UNCHANGED openings
  /\ UNCHANGED <<users, conversations, writer_alive, bot_vars, connected,
                 w_user, w_message, irc_vars, gui_vars, env_vars>>

\* _initiate_conversation, lines 623-633: privmsg returns or raises, the
\* lock is released, then the counter is incremented and the profile saved
WorkerSend ==
  /\ process_alive /\ w_pc = "sending"
  /\ connection_lock' = "free"
  /\ sending' = sending \ {"worker"}
  /\ w_pc' = "finally"
  /\ IF connected
       THEN /\ CanSubmit
            /\ openings' = [openings EXCEPT ![w_user] = CountUpTo(@, MaxOpenings)]
            /\ w_profile' = CountEngagement(w_profile)
            /\ write_queue' = PutSaveUser(write_queue,
                                          CountEngagement(w_profile), now)
            /\ Log("worker", "Bot")
       ELSE /\ Log("worker", "Erreur")
            /\ UNCHANGED <<openings, w_profile, write_queue>>
  /\ UNCHANGED <<users, conversations, writer_alive, bot_vars, connected,
                 w_user, w_message, irc_vars, gui_vars, env_vars>>

WorkerFinallyStops ==
  /\ process_alive /\ w_pc \in {"finally", "except"}
  /\ Log("worker", IF w_pc = "except" THEN "Erreur" ELSE "Analyse")
  /\ users_being_analyzed' = Discard(users_being_analyzed, w_user)
  /\ analysis_semaphore' = SemRelease(analysis_semaphore)
  /\ w_pc' = IF w_pc = "except" THEN "stopped" ELSE "idle"
  /\ w_user' = <<>> /\ w_profile' = NoProfile /\ w_message' = ""
  /\ UNCHANGED <<db_vars, analysis_queue, analysis_worker_started, conn_vars,
                 irc_vars, gui_vars, env_vars>>

\* _analyze_user, lines 528-533, and the end of the `with` block:
\* the closing log or the except clause, the finally clause, the permit
WorkerFinally ==
  /\ process_alive /\ w_pc \in {"finally", "except"}
  /\ Log("worker", IF w_pc = "except" THEN "Erreur" ELSE "Analyse")
  /\ users_being_analyzed' = Discard(users_being_analyzed, w_user)
  /\ analysis_semaphore' = SemRelease(analysis_semaphore)
  /\ w_pc' = "idle"
  /\ w_user' = <<>> /\ w_profile' = NoProfile /\ w_message' = ""
  /\ UNCHANGED <<db_vars, analysis_queue, analysis_worker_started, conn_vars,
                 irc_vars, gui_vars, env_vars>>

(* ---------------------- messages (IRC thread) ------------------------- *)

\* on_pubmsg, lines 637-644: get_user_profile, last_seen = now
PubmsgRead(reads) ==
  /\ process_alive /\ bot_instance /\ irc_pc = "idle"
  /\ \E nick \in Talkers :
       IF nick = BotNickname
         THEN UNCHANGED <<irc_pc, irc_nick, irc_profile>>
         ELSE /\ irc_nick' = nick
              /\ \E ok \in reads :
                   irc_profile' = [get_user_profile(users, nick, ok)
                                     EXCEPT !.last_seen = Some(now)]
              /\ irc_pc' = "pubmsg"
  /\ UNCHANGED <<db_vars, bot_vars, conn_vars, w_vars, irc_names,
                 irc_response, irc_context, gui_vars, last_log, env_vars>>

\* on_pubmsg, lines 645-647: save_user_profile, log
PubmsgSave ==
  /\ process_alive /\ irc_pc = "pubmsg"
  /\ CanSubmit
  /\ write_queue' = PutSaveUser(write_queue, irc_profile, now)
  /\ Log("irc", "Public")
  /\ irc_pc' = "idle"
  /\ irc_nick' = <<>> /\ irc_profile' = NoProfile
  /\ UNCHANGED <<users, conversations, writer_alive, bot_vars, conn_vars,
                 w_vars, irc_names, irc_response,
                 irc_context, gui_vars, env_vars>>

\* what generate_response returns, by outcome of the API call
GeneratedTexts ==
  {"generated_text",            \* status 200, content.strip()
   "",                          \* status 200, content empty after strip()
   "Cle_API_non_configuree",    \* no api_key
   "Cle_API_invalide",          \* status 401
   "Limite_de_taux_atteinte",   \* status 429
   "Erreur_API_status",         \* any other status
   "Timeout_de_l_API",          \* requests.exceptions.Timeout
   "Probleme_de_connexion",     \* requests.exceptions.ConnectionError
   "Mode_demo_fallback"}        \* any other exception: _get_fallback_response

\* the return value of the except clause of _generate_intelligent_response
Desole == "Desole_probleme_technique"

InboundTexts == {"hello"}

\* interaction records stored or pending
PendingConversations ==
  Len(conversations)
  + Cardinality({i \in 1..Len(write_queue) :
                   write_queue[i][1] = "save_conversation"})

\* on_privmsg, lines 653-663, and _generate_intelligent_response:
\* the reads, generate_response, save_conversation; `cap` cuts the run at
\* that many interaction records
PrivmsgGenerate(faults, reads, texts, cap) ==
  /\ process_alive /\ bot_instance /\ irc_pc = "idle"
  /\ \E nick \in Talkers, message \in InboundTexts :
       IF nick = BotNickname
         THEN UNCHANGED <<write_queue, irc_pc, irc_nick, irc_response,
                          irc_context, last_log>>
       ELSE IF ~connected
         THEN /\ Log("irc", "Erreur")
              /\ UNCHANGED <<write_queue, irc_pc, irc_nick, irc_response,
                             irc_context>>
       ELSE /\ irc_nick' = nick
            /\ irc_pc' = "privmsg"
            /\ \E fault \in faults :
                 IF fault
                   THEN /\ irc_response' = Desole
                        /\ irc_context' = << >>
                        /\ Log("irc", "Erreur")
                        /\ UNCHANGED write_queue
                   ELSE /\ CanSubmit
                        /\ PendingConversations < cap
                        /\ \E ok \in reads :
                             irc_context' \in get_conversation_history(
                               conversations, nick, HistoryLimit, ok)
                        /\ \E response \in texts :
                             /\ irc_response' = response
                             /\ write_queue' = PutSaveConversation(
                                  write_queue, nick, message, response, now)
                        /\ Log("irc", "Prive")
  /\ UNCHANGED <<users, conversations, writer_alive, bot_vars, conn_vars,
                 w_vars, irc_names, irc_profile, gui_vars, env_vars>>

\* on_privmsg, lines 666-668: `if response:` take the lock, enter privmsg
PrivmsgSendBegin ==
  /\ process_alive /\ irc_pc = "privmsg"
  /\ IF irc_response = ""
       THEN /\ irc_pc' = "idle"
            /\ irc_nick' = <<>>
            /\ UNCHANGED <<connection_lock, sending>>
       ELSE /\ connection_lock = "free"
            /\ connection_lock' = "irc"
            /\ sending' = sending \cup {"irc"}
            /\ irc_pc' = "privmsg_sending"
            /\ UNCHANGED irc_nick
  /\ irc_context' = << >>
  /\ UNCHANGED <<db_vars, bot_vars, connected, openings, w_vars,
                 irc_names, irc_profile, irc_response, gui_vars,
                 last_log, env_vars>>

\* on_privmsg, lines 668-672: privmsg returns or raises, lock released
PrivmsgSendEnd ==
  /\ process_alive /\ irc_pc = "privmsg_sending"
  /\ connection_lock' = "free"
  /\ sending' = sending \ {"irc"}
  /\ irc_pc' = "idle"
  /\ IF connected THEN UNCHANGED last_log ELSE Log("irc", "Erreur")
  /\ irc_nick' = <<>> /\ irc_response' = ""
  /\ UNCHANGED <<db_vars, bot_vars, connected, openings, w_vars, irc_names,
                 irc_profile, irc_context, gui_vars, env_vars>>

(* ------------------------- control surface ---------------------------- *)

\* toggle_user_targeting, lines 1441-1442: the selected row of the users
\* list, get_user_profile, flip the flag
ToggleRead(reads) ==
  /\ process_alive /\ gui_pc = "idle"
  /\ \E username \in DOMAIN users :
       /\ gui_user' = username
       /\ \E ok \in reads :
            gui_profile' = [get_user_profile(users, username, ok)
                              EXCEPT !.targeted = ~@]
  /\ gui_pc' = "toggle"
  /\ UNCHANGED <<db_vars, bot_vars, conn_vars, w_vars, irc_vars, last_log,
                 env_vars>>

ToggleSaveDirect ==
  /\ process_alive /\ gui_pc = "toggle"
  /\ users' = ExecuteOnUsers(users, "save_user", SaveUserData(gui_profile, now))
  /\ gui_pc' = "idle"
  /\ gui_user' = <<>> /\ gui_profile' = NoProfile
  /\ UNCHANGED <<conversations, write_queue, writer_alive, bot_vars, conn_vars,
                 w_vars, irc_vars, last_log, env_vars>>

\* toggle_user_targeting, lines 1443-1446: save_user_profile, log
ToggleSave ==
  /\ process_alive /\ gui_pc = "toggle"
  /\ CanSubmit
  /\ write_queue' = PutSaveUser(write_queue, gui_profile, now)
  /\ Log("gui", "Systeme")
  /\ gui_pc' = "idle"
  /\ gui_user' = <<>> /\ gui_profile' = NoProfile
  /\ UNCHANGED <<users, conversations, writer_alive, bot_vars, conn_vars,
                 w_vars, irc_vars, env_vars>>

\* send_message of a conversation tab, line 1485: enter connection.privmsg
\* (no lock is taken)
GuiSendBegin ==
  /\ process_alive /\ gui_pc = "idle" /\ bot_instance
  /\ \E username \in Talkers \ {BotNickname} : gui_user' = username
  /\ sending' = sending \cup {"gui"}
  /\ gui_pc' = "gui_sending"
  /\ UNCHANGED <<db_vars, bot_vars, connection_lock, connected, openings,
                 w_vars, irc_vars, gui_profile, last_log, env_vars>>

\* send_message, lines 1485-1491: privmsg returns or raises
GuiSendEnd ==
  /\ process_alive /\ gui_pc = "gui_sending"
  /\ sending' = sending \ {"gui"}
  /\ gui_pc' = "idle"
  /\ IF connected THEN UNCHANGED last_log ELSE Log("gui", "Erreur")
  /\ gui_user' = <<>>
  /\ UNCHANGED <<db_vars, bot_vars, connection_lock, connected, openings,
                 w_vars, irc_vars, gui_profile, env_vars>>

\* stop_bot: bot_instance.die() closes the connection; bot_instance = None.
\* The writer is not signalled: DatabaseManager.running stays True.
StopBot ==
  /\ process_alive /\ gui_pc = "idle" /\ bot_instance
  /\ connected' = FALSE
  /\ bot_instance' = FALSE
  /\ Log("gui", "Bot")
  /\ UNCHANGED <<db_vars, bot_vars, connection_lock, sending, openings,
                 w_vars, irc_vars, gui_vars, now, channel_nicks,
                 target_criteria, process_alive>>

\* root.mainloop() returns and the interpreter exits: the writer and the
\* analysis worker are daemon threads and end where they stand. The
\* tables stay on disk; write_queue keeps the intents that were never
\* applied; the rest of the process memory is gone.
ProcessExit ==
  /\ process_alive /\ gui_pc = "idle"
  /\ process_alive' = FALSE
  /\ writer_alive' = FALSE
  /\ bot_instance' = FALSE
  /\ connected' = FALSE
  /\ users_being_analyzed' = {}
  /\ analysis_queue' = << >>
  /\ analysis_semaphore' = SemaphoreCapacity
  /\ analysis_worker_started' = FALSE
  /\ connection_lock' = "free"
  /\ sending' = {}
  /\ w_pc' = "idle" /\ w_user' = <<>> /\ w_profile' = NoProfile
  /\ w_message' = ""
  /\ irc_pc' = "idle" /\ irc_names' = <<>> /\ irc_nick' = <<>>
  /\ irc_profile' = NoProfile /\ irc_response' = ""
  /\ irc_context' = << >>
  /\ gui_pc' = "idle" /\ gui_user' = <<>> /\ gui_profile' = NoProfile
  /\ last_log' = [t \in Loggers |-> "none"]
  /\ UNCHANGED <<users, conversations, write_queue, openings, now,
                 channel_nicks, target_criteria>>

(* --------------------------- environment ------------------------------ *)

\* the server or the network drops the connection
Disconnect ==
  /\ process_alive /\ connected
  /\ connected' = FALSE
  /\ UNCHANGED <<db_vars, bot_vars, connection_lock, sending, openings,
                 w_vars, irc_vars, gui_vars, last_log, env_vars>>

\* the bot reconnects (on_welcome)
Reconnect ==
  /\ process_alive /\ bot_instance /\ ~connected
  /\ connected' = TRUE
  /\ UNCHANGED <<db_vars, bot_vars, connection_lock, sending, openings,
                 w_vars, irc_vars, gui_vars, last_log, env_vars>>

\* the clock read by datetime.now() advances
Tick ==
  /\ process_alive /\ now < MaxClock
  /\ now' = now + 1
  /\ UNCHANGED <<db_vars, bot_vars, conn_vars, w_vars, irc_vars, gui_vars,
                 last_log, bot_instance, channel_nicks, target_criteria,
                 process_alive>>

(* -------------------------- specifications ---------------------------- *)

\* the objects of a freshly constructed bot and the locals of idle threads
Memory ==
  /\ users_being_analyzed = {}
  /\ analysis_queue = << >>
  /\ analysis_semaphore = SemaphoreCapacity
  /\ analysis_worker_started = FALSE
  /\ connection_lock = "free"
  /\ sending = {}
  /\ w_pc = "idle" /\ w_user = <<>> /\ w_profile = NoProfile /\ w_message = ""
  /\ irc_pc = "idle" /\ irc_names = <<>> /\ irc_nick = <<>>
  /\ irc_profile = NoProfile /\ irc_response = ""
  /\ irc_context = << >>
  /\ gui_pc = "idle" /\ gui_user = <<>> /\ gui_profile = NoProfile
  /\ last_log = [t \in Loggers |-> "none"]

\* DatabaseManager.__init__, IRCBotAdvanced.__init__ and a bot that has
\* been started on an empty database, on a channel with the given users
InitOn(channel, table) ==
  /\ target_criteria = TargetCriteria
  /\ channel_nicks = channel
  /\ users = table
  /\ conversations = << >>
  /\ write_queue = << >>
  /\ writer_alive = TRUE
  /\ now = 0
  /\ bot_instance = TRUE
  /\ process_alive = TRUE
  /\ connected = TRUE
  /\ openings = [n \in Nicks |-> 0]
  /\ Memory

\* the users table a previous session leaves behind: every user of the
\* channel analyzed once and never engaged
AnalyzedTable(channel) ==
  [u \in channel \ {BotNickname} |->
     SaveUserData(AnalyzedProfile([UserProfile(u) EXCEPT !.last_seen = Some(0)],
                                  u), 0)]

Init == InitOn(SmallChannel, << >>)

InitPipeline == InitOn(LargeChannel, AnalyzedTable(LargeChannel))

\* a bot on the small channel that has handled its first membership
\* snapshot, so the analysis worker runs
InitStore ==
  /\ target_criteria = TargetCriteria
  /\ channel_nicks = SmallChannel
  /\ users = AnalyzedTable(SmallChannel)
  /\ conversations = << >>
  /\ write_queue = << >>
  /\ writer_alive = TRUE
  /\ now = 0
  /\ bot_instance = TRUE
  /\ process_alive = TRUE
  /\ connected = TRUE
  /\ openings = [n \in Nicks |-> 0]
  /\ users_being_analyzed = {}
  /\ analysis_queue = << >>
  /\ analysis_semaphore = SemaphoreCapacity
  /\ analysis_worker_started = TRUE
  /\ connection_lock = "free"
  /\ sending = {}
  /\ w_pc = "idle" /\ w_user = <<>> /\ w_profile = NoProfile /\ w_message = ""
  /\ irc_pc = "idle" /\ irc_names = <<>> /\ irc_nick = <<>>
  /\ irc_profile = NoProfile /\ irc_response = ""
  /\ irc_context = << >>
  /\ gui_pc = "idle" /\ gui_user = <<>> /\ gui_profile = NoProfile
  /\ last_log = [t \in Loggers |-> "none"]

\* the pipeline of one user under every fault, with stop and exit
Next ==
  \/ NamreplyBegin \/ NamreplyName \/ NamreplyEnd \/ OnJoin
  \/ WorkerGet
  \/ WorkerRead(FaultOutcomes, StorageOutcomes)
  \/ WorkerSave(FaultOutcomes)
  \/ WorkerInitiate \/ WorkerSend \/ WorkerFinally
  \/ DatabaseWriter(StorageOutcomes)
  \/ StopBot \/ ProcessExit
  \/ Disconnect \/ Reconnect

Spec == Init /\ [][Next]_vars

\* a started bot alone with one user whose stored profile, if any, and the
\* targeting criteria are drawn from the bounded sets
InitProfiles ==
  /\ target_criteria \in CriteriaSet
  /\ \E u \in ProfileHandles :
       /\ channel_nicks = {u, BotNickname}
       /\ users \in {<< >>} \cup {(u :> r) : r \in StoredRows(u)}
  /\ conversations = << >>
  /\ write_queue = << >>
  /\ writer_alive = TRUE
  /\ now = 0
  /\ bot_instance = TRUE
  /\ process_alive = TRUE
  /\ connected = TRUE
  /\ openings = [n \in Nicks |-> 0]
  /\ users_being_analyzed = {}
  /\ analysis_queue = << >>
  /\ analysis_semaphore = SemaphoreCapacity
  /\ analysis_worker_started = TRUE
  /\ connection_lock = "free"
  /\ sending = {}
  /\ w_pc = "idle" /\ w_user = <<>> /\ w_profile = NoProfile /\ w_message = ""
  /\ irc_pc = "idle" /\ irc_names = <<>> /\ irc_nick = <<>>
  /\ irc_profile = NoProfile /\ irc_response = ""
  /\ irc_context = << >>
  /\ gui_pc = "idle" /\ gui_user = <<>> /\ gui_profile = NoProfile
  /\ last_log = [t \in Loggers |-> "none"]

\* the analysis of that user, with profile reads that may fail
NextProfiles ==
  \/ OnJoin
  \/ WorkerGet
  \/ WorkerRead(NoFault, StorageOutcomes)
  \/ WorkerSave(NoFault)
  \/ WorkerInitiate \/ WorkerSend \/ WorkerFinally
  \/ DatabaseWriter(StorageUp)

SpecProfiles == InitProfiles /\ [][NextProfiles]_vars

\* a started bot alone with one user never seen before
InitDerive ==
  /\ target_criteria = TargetCriteria
  /\ \E u \in DeriveHandles : channel_nicks = {u, BotNickname}
  /\ users = << >>
  /\ conversations = << >>
  /\ write_queue = << >>
  /\ writer_alive = TRUE
  /\ now = 0
  /\ bot_instance = TRUE
  /\ process_alive = TRUE
  /\ connected = TRUE
  /\ openings = [n \in Nicks |-> 0]
  /\ users_being_analyzed = {}
  /\ analysis_queue = << >>
  /\ analysis_semaphore = SemaphoreCapacity
  /\ analysis_worker_started = TRUE
  /\ connection_lock = "free"
  /\ sending = {}
  /\ w_pc = "idle" /\ w_user = <<>> /\ w_profile = NoProfile /\ w_message = ""
  /\ irc_pc = "idle" /\ irc_names = <<>> /\ irc_nick = <<>>
  /\ irc_profile = NoProfile /\ irc_response = ""
  /\ irc_context = << >>
  /\ gui_pc = "idle" /\ gui_user = <<>> /\ gui_profile = NoProfile
  /\ last_log = [t \in Loggers |-> "none"]

\* the analyses of that user, joining again and again
NextDerive ==
  \/ OnJoin
  \/ WorkerGet
  \/ WorkerRead(NoFault, StorageUp)
  \/ WorkerSave(NoFault)
  \/ WorkerInitiate \/ WorkerSend \/ WorkerFinally
  \/ DatabaseWriter(StorageUp)

SpecDerive == InitDerive /\ [][NextDerive]_vars

\* intake and analysis of a channel with more users than the queue holds
NextPipeline ==
  \/ NamreplyBegin \/ NamreplyName \/ NamreplyEnd \/ OnJoin
  \/ WorkerGet
  \/ WorkerRead(FaultOutcomes, StorageUp)
  \/ WorkerSave(FaultOutcomes)
  \/ WorkerInitiate \/ WorkerSend \/ WorkerFinally
  \/ DatabaseWriter(StorageUp)

SpecPipeline == InitPipeline /\ [][NextPipeline]_vars

\* a started bot on a channel with the given users, analyzed once before
InitStartedOn(channel) ==
  /\ target_criteria = TargetCriteria
  /\ channel_nicks = channel
  /\ users = AnalyzedTable(channel)
  /\ conversations = << >>
  /\ write_queue = << >>
  /\ writer_alive = TRUE
  /\ now = 0
  /\ bot_instance = TRUE
  /\ process_alive = TRUE
  /\ connected = TRUE
  /\ openings = [n \in Nicks |-> 0]
  /\ users_being_analyzed = {}
  /\ analysis_queue = << >>
  /\ analysis_semaphore = SemaphoreCapacity
  /\ analysis_worker_started = TRUE
  /\ connection_lock = "free"
  /\ sending = {}
  /\ w_pc = "idle" /\ w_user = <<>> /\ w_profile = NoProfile /\ w_message = ""
  /\ irc_pc = "idle" /\ irc_names = <<>> /\ irc_nick = <<>>
  /\ irc_profile = NoProfile /\ irc_response = ""
  /\ irc_context = << >>
  /\ gui_pc = "idle" /\ gui_user = <<>> /\ gui_profile = NoProfile
  /\ last_log = [t \in Loggers |-> "none"]

\* one step of the analysis worker thread, with faults
WorkerStep ==
  \/ WorkerGet
  \/ WorkerRead(FaultOutcomes, StorageUp)
  \/ WorkerSave(FaultOutcomes)
  \/ WorkerInitiate \/ WorkerSend \/ WorkerFinally

\* two users joining again and again, the worker, and the writer on a
\* storage that may be unavailable
NextWorker ==
  \/ OnJoin
  \/ WorkerStep
  \/ DatabaseWriter(StorageOutcomes)

SpecWorker == InitStartedOn(MediumChannel) /\ [][NextWorker]_vars

\* the worker and the writer are threads of their own looping on their
\* queues: each is scheduled again and again
SpecWorkerFair ==
  /\ SpecWorker
  /\ WF_vars(WorkerStep)
  /\ WF_vars(DatabaseWriter(StorageOutcomes))

\* the protocol thread goes on with the handler it is in
NamreplyStep == NamreplyName \/ NamreplyEnd

\* a bot that has just connected: snapshots and joins as the server sends
\* them, the worker and the writer
NextIntake ==
  \/ NamreplyBegin \/ NamreplyStep \/ OnJoin
  \/ WorkerStep
  \/ DatabaseWriter(StorageUp)

SpecIntake == Init /\ [][NextIntake]_vars

\* the threads of the program are scheduled again and again; what the
\* server sends, and when, is not under the program's control
SpecIntakeFair ==
  /\ SpecIntake
  /\ WF_vars(NamreplyStep)
  /\ WF_vars(WorkerStep)
  /\ WF_vars(DatabaseWriter(StorageUp))

\* every path that submits write intents, and the writer
NextStore ==
  \/ OnJoin
  \/ WorkerGet
  \/ WorkerRead(NoFault, StorageUp)
  \/ WorkerSave(NoFault)
  \/ WorkerInitiate \/ WorkerSend \/ WorkerFinally
  \/ PubmsgRead(StorageUp) \/ PubmsgSave
  \/ PrivmsgGenerate(NoFault, StorageUp, {"generated_text"}, MaxConversations)
  \/ PrivmsgSendBegin \/ PrivmsgSendEnd
  \/ ToggleRead(StorageUp) \/ ToggleSave
  \/ DatabaseWriter(StorageUp)

SpecStore == InitStore /\ [][NextStore]_vars

\* the same paths on a store that holds no row yet (init_database on a new
\* file): the first reads of a handle find no row and return the defaults
InitFresh ==
  /\ target_criteria = TargetCriteria
  /\ channel_nicks = SmallChannel
  /\ users = << >>
  /\ conversations = << >>
  /\ write_queue = << >>
  /\ writer_alive = TRUE
  /\ now = 0
  /\ bot_instance = TRUE
  /\ process_alive = TRUE
  /\ connected = TRUE
  /\ openings = [n \in Nicks |-> 0]
  /\ users_being_analyzed = {}
  /\ analysis_queue = << >>
  /\ analysis_semaphore = SemaphoreCapacity
  /\ analysis_worker_started = TRUE
  /\ connection_lock = "free"
  /\ sending = {}
  /\ w_pc = "idle" /\ w_user = <<>> /\ w_profile = NoProfile /\ w_message = ""
  /\ irc_pc = "idle" /\ irc_names = <<>> /\ irc_nick = <<>>
  /\ irc_profile = NoProfile /\ irc_response = ""
  /\ irc_context = << >>
  /\ gui_pc = "idle" /\ gui_user = <<>> /\ gui_profile = NoProfile
  /\ last_log = [t \in Loggers |-> "none"]

SpecFresh == InitFresh /\ [][NextStore]_vars

\* the three senders on the shared connection: the engagement of the
\* analysis worker, the private-message reply under every outcome of the
\* generation call, and the manual send of a conversation tab
NextSend ==
  \/ OnJoin
  \/ WorkerGet
  \/ WorkerRead(NoFault, StorageUp)
  \/ WorkerSave(NoFault)
  \/ WorkerInitiate \/ WorkerSend \/ WorkerFinally
  \/ PrivmsgGenerate(FaultOutcomes, StorageUp, GeneratedTexts,
                     MaxConversations)
  \/ PrivmsgSendBegin \/ PrivmsgSendEnd
  \/ GuiSendBegin \/ GuiSendEnd
  \/ DatabaseWriter(StorageUp)

SpecSend == InitStore /\ [][NextSend]_vars

\* the interaction records earlier sessions may have left: of lea25 and tom,
\* with timestamps before, at and after the clock of the start of the run
\* (datetime.now() is local wall-clock time and can be set back)
StoredRecords ==
  {SaveConversationData(u, "hello", "stored_text", ts) :
     u \in {Lea25, Tom}, ts \in 0..MaxClock}

StoredHistories ==
  {<< >>} \cup {<<r>> : r \in StoredRecords}
          \cup {<<r1, r2>> : r1 \in StoredRecords, r2 \in StoredRecords}

\* a started bot alone with lea25 and a stored interaction table
InitHistory ==
  /\ target_criteria = TargetCriteria
  /\ channel_nicks = SmallChannel
  /\ users = AnalyzedTable(SmallChannel)
  /\ conversations \in StoredHistories
  /\ write_queue = << >>
  /\ writer_alive = TRUE
  /\ now = 1
  /\ bot_instance = TRUE
  /\ process_alive = TRUE
  /\ connected = TRUE
  /\ openings = [n \in Nicks |-> 0]
  /\ users_being_analyzed = {}
  /\ analysis_queue = << >>
  /\ analysis_semaphore = SemaphoreCapacity
  /\ analysis_worker_started = TRUE
  /\ connection_lock = "free"
  /\ sending = {}
  /\ w_pc = "idle" /\ w_user = <<>> /\ w_profile = NoProfile /\ w_message = ""
  /\ irc_pc = "idle" /\ irc_names = <<>> /\ irc_nick = <<>>
  /\ irc_profile = NoProfile /\ irc_response = ""
  /\ irc_context = << >>
  /\ gui_pc = "idle" /\ gui_user = <<>> /\ gui_profile = NoProfile
  /\ last_log = [t \in Loggers |-> "none"]

\* private messages of lea25 answered while the clock advances, history
\* reads that may fail, and the writer
NextHistory ==
  \/ Tick
  \/ PrivmsgGenerate(NoFault, StorageOutcomes, {"generated_text"}, MaxHistory)
  \/ PrivmsgSendBegin \/ PrivmsgSendEnd
  \/ DatabaseWriter(StorageUp)

SpecHistory == InitHistory /\ [][NextHistory]_vars

(* ------------------------------ claims -------------------------------- *)

\* tasks for handle h in the intake queue plus the worker
TasksFor(h) ==
  Cardinality({i \in 1..Len(analysis_queue) : analysis_queue[i] = h})
  + (IF w_pc # "idle" /\ w_user = h THEN 1 ELSE 0)

\* analyses executing
Running == IF w_pc # "idle" THEN 1 ELSE 0

Min(a, b) == IF a < b THEN a ELSE b

\* C1: at any moment at most one task for a handle is queued or being
\* analyzed, however often the handle is observed.
NoDuplicateDispatch == \A h \in Nicks : TasksFor(h) <= 1

\* C1 witness: the worker never ran, the snapshot ~@lea25 +max max tom has
\* been read up to tom, so max was observed twice and is queued once.
NoDuplicateDispatchWitness ==
  /\ ~analysis_worker_started
  /\ irc_pc = "namreply" /\ irc_names = <<Tom>>
  /\ analysis_queue = <<Lea25, Max>>

\* C2 (as claimed): at most one opening message is ever sent to a handle.
EngagedAtMostOnce == \A h \in Nicks : openings[h] <= 1

\* the writer step on the head of the queue
HeadApplied ==
  /\ write_queue # << >>
  /\ write_queue' = Tail(write_queue)
  /\ users' = ExecuteOnUsers(users, Head(write_queue)[1], Head(write_queue)[2])
  /\ conversations' = ExecuteOnConversations(conversations,
                        Head(write_queue)[1], Head(write_queue)[2])

\* one intent is appended behind the pending ones
OneAppended ==
  /\ Len(write_queue') = Len(write_queue) + 1
  /\ SubSeq(write_queue', 1, Len(write_queue)) = write_queue

TablesUnchanged == users' = users /\ conversations' = conversations

\* C3: intents enter the queue at its tail, one at a time, and the tables
\* change only by applying the head of the queue, so the tables are the
\* sequential replay of the submissions in the order they completed.
SerializerFIFO ==
  [][ \/ (write_queue' = write_queue /\ TablesUnchanged)
      \/ (OneAppended /\ TablesUnchanged)
      \/ HeadApplied ]_vars

\* C3 witness: intents of two callers are pending in submission order
\* while an earlier one has been applied.
SerializerFIFOWitness ==
  /\ Len(write_queue) = 2
  /\ write_queue[1][1] = "save_conversation"
  /\ write_queue[2][1] = "save_user"
  /\ write_queue[2][2].targeted = FALSE
  /\ users[Lea25].conversation_count = 1

\* C4: a step that changes the users or the conversations table is a step
\* of the writer thread applying the head of the queue; no other thread
\* moves in it.
SoleMutator ==
  [][ ~TablesUnchanged =>
        /\ writer_alive
        /\ HeadApplied
        /\ UNCHANGED <<w_vars, irc_vars, gui_vars, bot_vars>> ]_vars

\* C4 witness: the tables hold the effects of an engagement, of a manual
\* toggle and of a private-message reply.
SoleMutatorWitness ==
  /\ users[Lea25].conversation_count = 1
  /\ users[Lea25].targeted = FALSE
  /\ Len(conversations) = 1

\* C5 (as claimed): a handle is in the in-flight set exactly when a task for
\* it is queued or being analyzed.
InFlightIffTask ==
  \A h \in Nicks : (h \in users_being_analyzed) <=> (TasksFor(h) >= 1)

\* C6: the step that ends an analysis, whatever its outcome, removes the
\* analyzed handle, which was in the in-flight set, from the set.
InFlightReleased ==
  [][ (w_pc # "idle" /\ w_pc' = "idle" /\ process_alive') =>
        /\ w_user \in users_being_analyzed
        /\ w_user \notin users_being_analyzed'
        /\ w_pc \in {"finally", "except"} ]_vars

\* C6 witness: the last analysis failed and the same handle has been
\* admitted again.
InFlightReleasedWitness ==
  /\ w_pc = "idle" /\ last_log["worker"] = "Erreur"
  /\ users_being_analyzed = {Lea25}
  /\ analysis_queue = <<Lea25>>

\* C7: the intake queue never exceeds its capacity; a handle entering the
\* in-flight set is appended when there is room and otherwise dropped with a
\* warning; with no task consumed, of n distinct handles observed
\* min(n, capacity) are queued.
IntakeOverflowShed ==
  /\ [](Len(analysis_queue) <= AnalysisQueueMaxSize)
  /\ []((~analysis_worker_started /\ process_alive) =>
          Len(analysis_queue) =
            Min(Cardinality(users_being_analyzed), AnalysisQueueMaxSize))
  /\ [][ \A h \in Nicks :
           (h \notin users_being_analyzed /\ h \in users_being_analyzed') =>
             IF Len(analysis_queue) >= AnalysisQueueMaxSize
               THEN /\ analysis_queue' = analysis_queue
                    /\ last_log'["irc"] = "Warning"
               ELSE analysis_queue' = Append(analysis_queue, h) ]_vars

\* C7 witness: one more distinct handle than the capacity was observed
\* with no task consumed; the queue is full and the last one was dropped
\* with a warning.
IntakeOverflowShedWitness ==
  /\ ~analysis_worker_started
  /\ Cardinality(users_being_analyzed) = AnalysisQueueMaxSize + 1
  /\ Len(analysis_queue) = AnalysisQueueMaxSize
  /\ last_log["irc"] = "Warning"

\* C8: at most SemaphoreCapacity analyses execute, and the permits taken
\* are exactly those of the executing analyses, so every finished analysis
\* has returned its permit.
ConcurrencyBound ==
  /\ Running <= SemaphoreCapacity
  /\ analysis_semaphore = SemaphoreCapacity - Running

\* C8 witness: an analysis has failed and its permit is back.
ConcurrencyBoundWitness ==
  /\ process_alive
  /\ w_pc = "idle" /\ last_log["worker"] = "Erreur"
  /\ analysis_semaphore = SemaphoreCapacity

\* C9 (as claimed): no submitted intent is lost without a signal to its
\* caller. save_user_profile and save_conversation return nothing to their
\* callers, so every intent the writer takes from the queue has to be
\* applied.
NoIntentLostSilently ==
  [][ (write_queue # << >> /\ write_queue' = Tail(write_queue)) =>
        HeadApplied ]_vars

\* C10 (as claimed): the writer terminates only after applying every
\* intent that was queued.
WriterDrainsBeforeTerminating == ~writer_alive => write_queue = << >>

\* the analysis passes its save_user_profile call
AnalysisSubmits == w_pc = "save" /\ w_pc' # "save" /\ process_alive'

\* the intent at the tail of the queue after a submission
Submitted == write_queue'[Len(write_queue')][2]

\* C11: an attribute the profile read returned as known is submitted with
\* the same value whatever the derivation yields; an attribute read as
\* unknown is submitted with the derived value.
StoredWinsMerge ==
  [][ AnalysisSubmits =>
        LET derived == analyze_username(w_user)
        IN /\ Submitted.username = w_user
           /\ Submitted.age = IF w_profile.age # None
                                THEN w_profile.age ELSE derived.age
           /\ Submitted.gender = IF w_profile.gender # None
                                   THEN w_profile.gender ELSE derived.gender
           /\ Submitted.city = IF w_profile.city # None
                                 THEN w_profile.city ELSE derived.city ]_vars

\* C11 witness: lea25 (derived age 25, gender Femme) was stored with age 40
\* and gender Homme, and the analysis has submitted age 40 and Homme.
StoredWinsMergeWitness ==
  /\ w_user = Lea25 /\ w_pc \in {"initiate", "finally"}
  /\ write_queue # << >>
  /\ write_queue[Len(write_queue)][2].age = Some(40)
  /\ write_queue[Len(write_queue)][2].gender = Some(Homme)
  /\ DeriveAge(Lea25) = Some(25)

\* the targeting rule as the design states it
MatchesReference(p, c) ==
  ~ \/ (p.age # None /\ (p.age[1] < c.age_min \/ p.age[1] > c.age_max))
    \/ (c.gender # Tous /\ p.gender # None /\ p.gender[1] # c.gender)

\* C12: the targeted flag an analysis computes for the merged profile under
\* the configured criteria equals the reference predicate: false exactly
\* when a known age is outside [age_min, age_max] or a known gender differs
\* from a criteria gender other than 'Tous'.
TargetingEqualsReference ==
  [][ AnalysisSubmits =>
        /\ w_profile'.targeted = MatchesReference(w_profile', target_criteria)
        /\ Submitted.targeted = w_profile'.targeted
        /\ matches_targeting_criteria(w_profile', target_criteria)
             = MatchesReference(w_profile', target_criteria) ]_vars

\* C12 witness: known age 40, unknown gender, criteria 18..35 / Femme:
\* not targeted.
TargetingEqualsReferenceWitness ==
  /\ w_pc = "finally" /\ w_user = Zed
  /\ w_profile.age = Some(40) /\ w_profile.gender = None
  /\ target_criteria = [age_min |-> 18, age_max |-> 35, gender |-> Femme]
  /\ w_profile.targeted = FALSE

\* the profile a stored row reads as, before the caller stamps last_seen
RowProfile(row) ==
  [username |-> row.username, age |-> row.age, gender |-> row.gender,
   city |-> row.city, last_seen |-> None,
   conversation_count |-> row.conversation_count, targeted |-> row.targeted,
   whois_info |-> None]

\* the defaults of a profile that carries only its handle
DefaultProfile(h) ==
  [username |-> h, age |-> None, gender |-> None, city |-> None,
   last_seen |-> None, conversation_count |-> 0, targeted |-> FALSE,
   whois_info |-> None]

\* C19: every profile read of an analysis returns a profile carrying the
\* handle asked for: the stored row, or the defaulted profile when no row
\* exists or the read fails; the read changes neither table nor the queue.
ProfileReadNeverFails ==
  [][ (w_pc = "read" /\ w_pc' = "save") =>
        LET got == [w_profile' EXCEPT !.last_seen = None]
        IN /\ got.username = w_user
           /\ \/ got = DefaultProfile(w_user)
              \/ (w_user \in DOMAIN users /\ got = RowProfile(users[w_user]))
           /\ UNCHANGED <<users, conversations, write_queue>> ]_vars

\* C19 witness: a row with a known age exists for the handle and the read,
\* having failed, returned the defaulted profile.
ProfileReadNeverFailsWitness ==
  /\ w_pc = "save" /\ w_user \in DOMAIN users
  /\ users[w_user].age # None
  /\ w_profile.age = None /\ w_profile.conversation_count = 0
  /\ w_profile.username = w_user

\* _initiate_conversation returns, having sent or not
EngagementReturns ==
  w_pc \in {"initiate", "sending"} /\ w_pc' = "finally" /\ process_alive'

\* the counter update of the engaged handle is at the tail of the queue
CounterUpdateSubmitted ==
  /\ OneAppended
  /\ Submitted.username = w_user
  /\ Submitted.conversation_count = w_profile.conversation_count + 1

\* C13 (as claimed): whenever the Engagement Trigger is invoked, the opening
\* message is sent and the counter update is submitted before the handle
\* leaves the in-flight set.
EngagementAlwaysSends ==
  [][ EngagementReturns =>
        /\ w_pc = "sending"
        /\ openings'[w_user] = Min(openings[w_user] + 1, MaxOpenings)
        /\ CounterUpdateSubmitted
        /\ w_user \in users_being_analyzed' ]_vars

\* C13 (amended): the Engagement Trigger is invoked only from an analysis
\* whose merged profile is targeted and whose counter, as read at its
\* start, is zero. When the connection is up as the send returns, the
\* message is sent and the counter update submitted while the handle is in
\* the in-flight set; otherwise nothing is sent or submitted and an error
\* is logged. The handle leaves the set only in the analysis's last step.
EngagementGatedAndOrdered ==
  [][ /\ (w_pc # "initiate" /\ w_pc' = "initiate") =>
           /\ w_pc = "save"
           /\ w_profile'.targeted
           /\ w_profile.conversation_count = 0
      /\ (EngagementReturns /\ w_pc = "sending" /\ connected) =>
           /\ openings'[w_user] = Min(openings[w_user] + 1, MaxOpenings)
           /\ CounterUpdateSubmitted
           /\ w_user \in users_being_analyzed'
      /\ (EngagementReturns /\ ~(w_pc = "sending" /\ connected)) =>
           /\ ~connected
           /\ openings' = openings
           /\ write_queue' = write_queue
           /\ last_log'["worker"] = "Erreur"
           /\ w_user \in users_being_analyzed'
      /\ (w_pc # "idle" /\ process_alive'
          /\ w_user \in users_being_analyzed
          /\ w_user \notin users_being_analyzed') =>
           w_pc \in {"finally", "except"} ]_vars

\* C13 witness: the first engagement of lea25 has sent its message and
\* submitted the counter update, and lea25 is still in the in-flight set.
EngagementGatedAndOrderedWitness ==
  /\ w_pc = "finally" /\ w_user = Lea25 /\ last_log["worker"] = "Bot"
  /\ openings[Lea25] = 1
  /\ Lea25 \in users_being_analyzed
  /\ write_queue # << >>
  /\ write_queue[Len(write_queue)][2].conversation_count = 1

\* C14 (as claimed): an engagement that sends an opening message submits an
\* interaction record for the handle with an empty inbound text and the
\* message sent as outbound text.
EngagementRecorded ==
  [][ (EngagementReturns /\ w_pc = "sending" /\ connected) =>
        \E i \in 1..Len(write_queue') :
          /\ write_queue'[i][1] = "save_conversation"
          /\ write_queue'[i][2].username = w_user
          /\ write_queue'[i][2].message = ""
          /\ write_queue'[i][2].bot_response = w_message ]_vars

\* C15 (as claimed): at most one direct-message send is in progress on the
\* connection, across the analysis worker, the protocol thread and the
\* control surface.
SendsMutuallyExclusive == Cardinality(sending) <= 1

\* the texts generate_response returns to describe a failed call
ErrorDescriptions ==
  {"Cle_API_non_configuree", "Cle_API_invalide", "Limite_de_taux_atteinte",
   "Erreur_API_status", "Timeout_de_l_API", "Probleme_de_connexion"}

\* C16 (as claimed): the text sent in reply to a private message is never
\* the description of a generation error.
GenerationFailuresMasked ==
  irc_pc = "privmsg_sending" => irc_response \notin ErrorDescriptions

\* handle h has a task in the intake queue
Queued(h) == \E i \in 1..Len(analysis_queue) : analysis_queue[i] = h

\* C17: a failing analysis ends in the worker's idle state with an error
\* notification, the queue untouched and the permit returned; the worker
\* never leaves its loop; and every queued task is eventually taken and
\* every analysis taken runs to its end.
WorkerFailureIsolated ==
  /\ [][ (w_pc = "except" /\ w_pc' # "except") =>
           /\ w_pc' = "idle"
           /\ last_log'["worker"] = "Erreur"
           /\ analysis_queue' = analysis_queue
           /\ analysis_semaphore' = analysis_semaphore + 1
           /\ analysis_worker_started' ]_vars
  /\ [](w_pc \in {"idle", "read", "save", "initiate", "sending", "finally",
                  "except"})
  /\ Queued(Tom) ~> (w_pc = "read" /\ w_user = Tom)
  /\ Queued(Lea25) ~> (w_pc = "read" /\ w_user = Lea25)
  /\ (w_pc = "read") ~> (w_pc = "idle")

\* C17 witness: the last analysis failed, tom is no longer in flight, and
\* the worker has taken the task of lea25.
WorkerFailureIsolatedWitness ==
  /\ w_pc = "read" /\ w_user = Lea25
  /\ last_log["worker"] = "Erreur"
  /\ analysis_queue = << >>
  /\ users_being_analyzed = {Lea25}

\* C18: a writer step that fails leaves the tables unchanged and logs the
\* error, a writer step that succeeds applies the head intent; either way
\* the writer stays alive and no submitter thread is moved; and the writer
\* takes the head of the queue again and again unless the queue stays empty.
WriterSurvivesErrors ==
  /\ [][ (write_queue # << >> /\ write_queue' = Tail(write_queue)) =>
           /\ \/ HeadApplied /\ last_log' = last_log
              \/ TablesUnchanged /\ last_log'["writer"] = "error"
           /\ writer_alive'
           /\ UNCHANGED <<w_vars, irc_vars, gui_vars>> ]_vars
  /\ [](writer_alive)
  /\ \/ []<><<write_queue # << >> /\ write_queue' = Tail(write_queue)>>_vars
     \/ <>[](write_queue = << >>)

\* C18 witness: the writer has logged a failed application, is alive with
\* nothing pending, and the row of lea25 holds the engagement count that
\* only the second intent of her analysis carries.
WriterSurvivesErrorsWitness ==
  /\ last_log["writer"] = "error"
  /\ writer_alive
  /\ write_queue = << >>
  /\ users[Lea25].conversation_count = 1
  /\ w_pc = "finally" /\ w_user = Lea25 /\ openings[Lea25] = 1

\* the rows of a users table
Rows(tbl) == {tbl[u] : u \in DOMAIN tbl}

\* the rows after INSERT OR REPLACE of `data` on primary key username
InsertOrReplace(rows, data) ==
  {r \in rows : r.username # data.username} \cup {data}

\* C20: no two rows of the users table carry the same handle; applying a
\* save-profile intent replaces the row of its handle and keeps every
\* other row; and no step removes the row of a handle.
OneRecordPerHandle ==
  /\ [](\A u \in DOMAIN users : users[u].username = u)
  /\ [](\A r1, r2 \in Rows(users) : r1.username = r2.username => r1 = r2)
  /\ [][ /\ DOMAIN users \subseteq DOMAIN users'
         /\ (write_queue # << >> /\ write_queue' = Tail(write_queue)
               /\ Head(write_queue)[1] = "save_user") =>
              Rows(users') = InsertOrReplace(Rows(users), Head(write_queue)[2])
         /\ users' # users =>
              (write_queue # << >> /\ write_queue' = Tail(write_queue)
                 /\ Head(write_queue)[1] = "save_user") ]_vars

\* C20 witness: the row of lea25 written by her analysis has been replaced
\* by the row of her engagement, and the rows of the other users are the
\* ones the table started with.
OneRecordPerHandleWitness ==
  /\ DOMAIN users = LargeChannel \ {BotNickname}
  /\ users[Lea25].conversation_count = 1
  /\ \A u \in DOMAIN users \ {Lea25} : users[u] = AnalyzedTable(LargeChannel)[u]

\* the writer takes a save_conversation intent from the head of the queue
AppliesConversation ==
  /\ write_queue # << >>
  /\ write_queue' = Tail(write_queue)
  /\ Head(write_queue)[1] = "save_conversation"

\* C21: every step keeps the interaction records already in the table, in
\* place and unchanged; the table changes only when the writer applies an
\* append-interaction intent, and then by exactly that one record at the
\* end.
InteractionLogAppendOnly ==
  [][ /\ Len(conversations') >= Len(conversations)
      /\ SubSeq(conversations', 1, Len(conversations)) = conversations
      /\ AppliesConversation =>
           conversations' = Append(conversations, Head(write_queue)[2])
      /\ conversations' # conversations => AppliesConversation ]_vars

\* C21 witness: two records stored by earlier sessions are still the first
\* two rows after a reply to lea25 at time 2 has been appended.
InteractionLogAppendOnlyWitness ==
  /\ Len(conversations) = 3
  /\ conversations[1] = SaveConversationData(Tom, "hello", "stored_text", 2)
  /\ conversations[2] = SaveConversationData(Lea25, "hello", "stored_text", 0)
  /\ conversations[3] =
       SaveConversationData(Lea25, "hello", "generated_text", 2)

\* the handle contains one of the substrings of the list, case ignored
ContainsAny(username, indicators) ==
  \E i \in DOMAIN indicators : Contains(Lower(username), indicators[i])

\* the gender rule as the design states it
GenderReference(username) ==
  IF ContainsAny(username, male_indicators) THEN Some(Homme)
  ELSE IF ContainsAny(username, female_indicators) THEN Some(Femme)
  ELSE None

\* C22: an analysis that read no gender submits Homme when the handle has
\* a male indicator, else Femme when it has a female indicator, else no
\* gender; and whatever the order of the analyses, the row of a handle
\* holds that gender.
GenderTieBreak ==
  /\ [][ (AnalysisSubmits /\ w_profile.gender = None) =>
           Submitted.gender = GenderReference(w_user) ]_vars
  /\ [](\A u \in DOMAIN users : users[u].gender = GenderReference(u))

\* C22 witness: AnnaMax, with the female indicator anna before the male
\* indicator max, is stored as Homme.
GenderTieBreakWitness ==
  /\ AnnaMax \in DOMAIN users
  /\ users[AnnaMax].gender = Some(Homme)
  /\ ContainsAny(AnnaMax, female_indicators)

\* the birth years 1980..2009 whose digits occur in the handle
YearTokens(username) ==
  {y \in BirthYearFrom..(BirthYearTo - 1) : Contains(username, IntToStr(y))}

\* the ages 18..99 whose digits occur in the handle
AgeTokens(username) ==
  {a \in DirectAgeFrom..(DirectAgeTo - 1) : Contains(username, IntToStr(a))}

\* C23: an analysis that read no age of a handle with a birth-year token
\* submits the current year minus a year token of the handle, whatever
\* plausible ages the handle also contains; without a year token it
\* submits a plausible age of the handle, or none when there is none.
BirthYearPrecedence ==
  [][ (AnalysisSubmits /\ w_profile.age = None) =>
        IF YearTokens(w_user) # {}
          THEN \E y \in YearTokens(w_user) :
                 Submitted.age = Some(CurrentYear - y)
          ELSE IF AgeTokens(w_user) # {}
            THEN \E a \in AgeTokens(w_user) : Submitted.age = Some(a)
          ELSE Submitted.age = None ]_vars

\* C23 witness: alex1990paris07 contains the plausible ages 19, 99 and 90
\* inside its year and is stored with the age of the birth year 1990.
BirthYearPrecedenceWitness ==
  /\ Alex1990Paris07 \in DOMAIN users
  /\ users[Alex1990Paris07].age = Some(CurrentYear - 1990)
  /\ AgeTokens(Alex1990Paris07) = {19, 90, 99}

\* the plausible age whose digits occur first in the handle
LeftmostAge(username) ==
  LET at(i) == {a \in AgeTokens(username) :
                  i + 1 <= Len(username)
                  /\ SubSeq(username, i, i + 1) = IntToStr(a)}
      first == CHOOSE i \in 1..Len(username) :
                 at(i) # {} /\ \A j \in 1..(i - 1) : at(j) = {}
  IN CHOOSE a \in at(first) : TRUE

\* C24 (as claimed): an analysis that read no age of a handle without a
\* birth-year token and with plausible ages submits the leftmost one.
DirectAgeLeftmost ==
  [][ (AnalysisSubmits /\ w_profile.age = None /\ YearTokens(w_user) = {}
         /\ AgeTokens(w_user) # {}) =>
        Submitted.age = Some(LeftmostAge(w_user)) ]_vars

\* on_privmsg enters _generate_intelligent_response, which queries the
\* history of the sender
HistoryQueried == irc_pc = "idle" /\ irc_pc' = "privmsg"

\* `result` is the n most recent rows of handle h in tbl, most recent first
IsRecentHistory(result, tbl, h, n) ==
  LET mine == {i \in 1..Len(tbl) : tbl[i].username = h}
  IN /\ Len(result) = Min(n, Cardinality(mine))
     /\ \A i, j \in 1..Len(result) :
          i < j => result[i].timestamp >= result[j].timestamp
     /\ \E f \in [1..Len(result) -> mine] :
          /\ \A i, j \in 1..Len(result) : i # j => f[i] # f[j]
          /\ \A i \in 1..Len(result) : result[i] = HistoryRow(tbl, f[i])
          /\ \A m \in mine : (\A i \in 1..Len(result) : f[i] # m) =>
               \A i \in 1..Len(result) :
                 tbl[m].timestamp <= result[i].timestamp

\* C25 (as claimed): every history query returns the HistoryLimit most
\* recent records of the handle applied so far, most recent first.
HistoryQueryExact ==
  [][ HistoryQueried =>
        IsRecentHistory(irc_context', conversations, irc_nick',
                        HistoryLimit) ]_vars

\* C25 (amended): every history query returns either the HistoryLimit most
\* recent records of the handle applied so far, most recent first, or the
\* empty list.
HistoryQueryExactOrEmpty ==
  [][ HistoryQueried =>
        \/ IsRecentHistory(irc_context', conversations, irc_nick',
                           HistoryLimit)
        \/ irc_context' = << >> ]_vars

\* C25 witness: lea25 has three records, applied with timestamps 0, 2 and
\* 1 in that order; the query returned the records of timestamps 2 and 1.
HistoryQueryExactOrEmptyWitness ==
  /\ irc_pc = "privmsg" /\ irc_nick = Lea25
  /\ Len(conversations) = 3
  /\ \A i \in 1..3 : conversations[i].username = Lea25
  /\ conversations[1].timestamp = 0
  /\ conversations[2].timestamp = 2
  /\ conversations[3].timestamp = 1
  /\ irc_context = <<HistoryRow(conversations, 2), HistoryRow(conversations, 3)>>

\* on_namreply handles the next identifier of the snapshot
SnapshotNameHandled ==
  irc_pc = "namreply" /\ irc_names # << >> /\ irc_names' # irc_names

\* C26: handling an identifier of a snapshot adds at most its undecorated
\* handle to the in-flight set and at most one task, for that handle, to
\* the queue, and nothing when that handle is already in flight; no handle
\* in flight or queued starts with a role prefix.
PrefixesStripped ==
  /\ [][ SnapshotNameHandled =>
           LET handle == Undecorated(Head(irc_names))
           IN /\ users_being_analyzed' \in
                   {users_being_analyzed, users_being_analyzed \cup {handle}}
              /\ analysis_queue' \in
                   {analysis_queue, Append(analysis_queue, handle)}
              /\ handle \in users_being_analyzed =>
                   /\ users_being_analyzed' = users_being_analyzed
                   /\ analysis_queue' = analysis_queue ]_vars
  /\ [](\A h \in users_being_analyzed : h = Undecorated(h))
  /\ [](\A i \in 1..Len(analysis_queue) :
          analysis_queue[i] = Undecorated(analysis_queue[i]))

\* C26 witness: of the snapshot ~@lea25 +max max tom, the first three
\* identifiers are handled: one task for lea25 and one for max.
PrefixesStrippedWitness ==
  /\ irc_pc = "namreply" /\ irc_names = <<Tom>>
  /\ analysis_queue = <<Lea25, Max>>
  /\ users_being_analyzed = {Lea25, Max}

\* C27: the intake queue changes only by a task admitted at its tail or by
\* its head taken by the worker, and an analysis starts only by taking the
\* head of the queue: analyses start in the order of admission.
IntakeFIFO ==
  /\ [][ analysis_queue' # analysis_queue =>
           \/ \E h \in Nicks : analysis_queue' = Append(analysis_queue, h)
           \/ /\ analysis_queue # << >>
              /\ analysis_queue' = Tail(analysis_queue)
              /\ w_pc' = "read" /\ w_user' = Head(analysis_queue) ]_vars
  /\ [][ (w_pc # "read" /\ w_pc' = "read") =>
           /\ analysis_queue # << >>
           /\ w_user' = Head(analysis_queue)
           /\ analysis_queue' = Tail(analysis_queue) ]_vars

\* C27 witness: lea25, max and tom were admitted in that order; the
\* analysis of lea25 has started, max and tom wait in that order.
IntakeFIFOWitness ==
  /\ w_pc = "read" /\ w_user = Lea25
  /\ analysis_queue = <<Max, Tom>>
  /\ users_being_analyzed = {Lea25, Max, Tom}

\* C28: reading the profile submits nothing; the analysis then submits
\* exactly one save-profile intent for its handle, whose targeted flag is
\* the targeting rule applied to the submitted attributes, whatever flag
\* was read; and the engagement is entered only from that submission.
AnalysisSubmitsOnce ==
  /\ [][ (w_pc = "read" /\ w_pc' # "read") =>
           write_queue' = write_queue ]_vars
  /\ [][ AnalysisSubmits =>
           /\ OneAppended
           /\ write_queue'[Len(write_queue')][1] = "save_user"
           /\ Submitted.username = w_user
           /\ Submitted.targeted =
                MatchesReference(Submitted, target_criteria)
           /\ w_pc' \in {"initiate", "finally"} ]_vars
  /\ [][ (w_pc # "initiate" /\ w_pc' = "initiate") => w_pc = "save" ]_vars

\* C28 witness: the manual override has stored lea25 as not targeted, and
\* her analysis has read that row and submitted her as targeted.
AnalysisSubmitsOnceWitness ==
  /\ Lea25 \in DOMAIN users /\ ~users[Lea25].targeted
  /\ w_user = Lea25 /\ w_pc = "finally"
  /\ w_profile.conversation_count = 1
  /\ Len(write_queue) = 1
  /\ write_queue[1][1] = "save_user"
  /\ write_queue[1][2].targeted

\* C29 (as claimed): a task of lea25 in the intake queue leads to lea25
\* being out of the in-flight set.
AdmittedEventuallyCompleted ==
  Queued(Lea25) ~> (Lea25 \notin users_being_analyzed)

\* C30 (as claimed): when the protocol thread is free, the queue has room
\* and a user of the channel has no task queued or running, an observation
\* of that user by on_join admits a task for it; in particular for a user
\* whose earlier observation was shed.
ShedCanBeRetried ==
  \A h \in channel_nicks \ {BotNickname} :
    (irc_pc = "idle" /\ process_alive /\ bot_instance
       /\ ~QueueFull(analysis_queue)
       /\ ~Queued(h) /\ ~(w_pc # "idle" /\ w_user = h)) =>
      ENABLED (OnJoin /\ analysis_queue' = Append(analysis_queue, h))

\* members whose intake earlier snapshots shed on a full queue: they were
\* added to the in-flight set at line 473 and nothing removes them
ShedEarlier == {CrowdMember(i) : i \in 1..(NamesLimit - 3)}

\* a started bot on the crowded channel, every member analyzed in an
\* earlier session: membership snapshots, the worker and the writer
InitCrowd ==
  /\ target_criteria = TargetCriteria
  /\ channel_nicks = CrowdedChannel
  /\ users = AnalyzedTable(CrowdedChannel)
  /\ conversations = << >>
  /\ write_queue = << >>
  /\ writer_alive = TRUE
  /\ now = 0
  /\ bot_instance = TRUE
  /\ process_alive = TRUE
  /\ connected = TRUE
  /\ openings = [n \in Nicks |-> 0]
  /\ users_being_analyzed = ShedEarlier
  /\ analysis_queue = << >>
  /\ analysis_semaphore = SemaphoreCapacity
  /\ analysis_worker_started = TRUE
  /\ connection_lock = "free"
  /\ sending = {}
  /\ w_pc = "idle" /\ w_user = <<>> /\ w_profile = NoProfile /\ w_message = ""
  /\ irc_pc = "idle" /\ irc_names = <<>> /\ irc_nick = <<>>
  /\ irc_profile = NoProfile /\ irc_response = ""
  /\ irc_context = << >>
  /\ gui_pc = "idle" /\ gui_user = <<>> /\ gui_profile = NoProfile
  /\ last_log = [t \in Loggers |-> "none"]

NextCrowd ==
  \/ NamreplyBegin \/ NamreplyName \/ NamreplyEnd
  \/ WorkerGet
  \/ WorkerRead(NoFault, StorageUp)
  \/ WorkerSave(NoFault)
  \/ WorkerInitiate \/ WorkerSend \/ WorkerFinally
  \/ DatabaseWriter(StorageUp)

SpecCrowd == InitCrowd /\ [][NextCrowd]_vars

\* every event the server delivers about the channel, the bot's own
\* nickname included, from the first snapshot on
NextSelf ==
  \/ NamreplyBegin \/ NamreplyName \/ NamreplyEnd \/ OnJoin
  \/ WorkerGet
  \/ WorkerRead(NoFault, StorageUp)
  \/ WorkerSave(NoFault)
  \/ WorkerInitiate \/ WorkerSend \/ WorkerFinally
  \/ PubmsgRead(StorageUp) \/ PubmsgSave
  \/ PrivmsgGenerate(NoFault, StorageUp, {"generated_text"}, MaxConversations)
  \/ PrivmsgSendBegin \/ PrivmsgSendEnd
  \/ DatabaseWriter(StorageUp)

SpecSelf == Init /\ [][NextSelf]_vars

\* C31 (as claimed): no step lowers the conversation counter stored for a
\* handle.
CounterNeverDecreases ==
  [][ \A h \in DOMAIN users :
        h \in DOMAIN users'
        /\ users'[h].conversation_count >= users[h].conversation_count ]_vars


\* C32 (as claimed): once the store holds a known age, gender or city for a
\* handle, no step changes that attribute of the stored row.
KnownAttributeNeverReverts ==
  [][ \A h \in DOMAIN users :
        /\ h \in DOMAIN users'
        /\ users[h].age # None => users'[h].age = users[h].age
        /\ users[h].gender # None => users'[h].gender = users[h].gender
        /\ users[h].city # None => users'[h].city = users[h].city ]_vars

\* connection.privmsg of line 623 returns normally
HandedToTransport == w_pc = "sending" /\ connected

\* C33: when an engagement attempt ends, the counter of the profile is
\* incremented by exactly one, from zero, and the updated profile submitted
\* if and only if the opening message was handed to the transport; when the
\* connection is down or the send raises, the counter stays at zero and
\* nothing is submitted.
CounterChangesOnlyOnSend ==
  [][ EngagementReturns =>
        /\ w_profile.conversation_count = 0
        /\ IF HandedToTransport
             THEN /\ w_profile'.conversation_count = 1
                  /\ CounterUpdateSubmitted
                  /\ Submitted.conversation_count = 1
             ELSE /\ w_profile'.conversation_count = 0
                  /\ write_queue' = write_queue
                  /\ openings' = openings ]_vars

\* C33 witness: an engagement attempt for lea25 has ended in an error while
\* the connection is down: her counter is still zero, no opening was sent
\* and no profile with a counter above zero is stored or pending.
CounterChangesOnlyOnSendWitness ==
  /\ w_pc = "finally" /\ w_user = Lea25 /\ last_log["worker"] = "Erreur"
  /\ ~connected
  /\ w_profile.conversation_count = 0
  /\ openings[Lea25] = 0
  /\ \A i \in 1..Len(write_queue) : write_queue[i][2].conversation_count = 0
  /\ \A h \in DOMAIN users : users[h].conversation_count = 0

\* C34: on a store that starts empty, the conversation counter of every
\* stored profile and of every pending save-profile intent is 0 or 1.
CounterZeroOrOne ==
  /\ \A h \in DOMAIN users : users[h].conversation_count \in {0, 1}
  /\ \A i \in 1..Len(write_queue) :
       write_queue[i][1] = "save_user" =>
         write_queue[i][2].conversation_count \in {0, 1}

\* C34 witness: lea25 has been sent two opening messages, her stored
\* counter is 1 and the update of the second engagement, again with
\* counter 1, is pending.
CounterZeroOrOneWitness ==
  /\ openings[Lea25] = 2
  /\ Lea25 \in DOMAIN users /\ users[Lea25].conversation_count = 1
  /\ write_queue # << >>
  /\ write_queue[Len(write_queue)][1] = "save_user"
  /\ write_queue[Len(write_queue)][2].conversation_count = 1

\* C35 (as claimed): each private message of another sender handled while
\* connected submits exactly one interaction record, whose outbound text
\* is the reply the handler goes on to send.
ReplySentIsReplyRecorded ==
  [][ (irc_pc = "idle" /\ irc_pc' = "privmsg") =>
        /\ OneAppended
        /\ write_queue'[Len(write_queue')][1] = "save_conversation"
        /\ Submitted.username = irc_nick'
        /\ Submitted.bot_response = irc_response' ]_vars

\* the identifiers of the crowded snapshot after the first NamesLimit
BeyondLimit ==
  {Undecorated(CrowdSnapshot[i]) : i \in (NamesLimit + 1)..Len(CrowdSnapshot)}

\* C36: while a membership snapshot is handled, the identifiers still to
\* be considered are a tail of its first 20; the identifiers after the
\* 20th are never added to the in-flight set, enqueued or analyzed.
SnapshotAdmitsAtMostTwenty ==
  /\ irc_pc = "namreply" =>
       \E names \in Snapshots :
         LET last == Min(Len(names), NamesLimit)
         IN \E k \in 1..(last + 1) : irc_names = SubSeq(names, k, last)
  /\ \A h \in BeyondLimit :
       /\ h \notin users_being_analyzed
       /\ ~Queued(h)
       /\ w_user # h

\* C36 witness: the loop over the crowded snapshot has ended without a
\* full queue, its 20th identifier was admitted and is queued.
SnapshotAdmitsAtMostTwentyWitness ==
  /\ irc_pc = "namreply" /\ irc_names = << >>
  /\ last_log["irc"] = "Systeme"
  /\ Undecorated(CrowdSnapshot[NamesLimit]) \in users_being_analyzed
  /\ Queued(Undecorated(CrowdSnapshot[NamesLimit]))
  /\ Len(CrowdSnapshot) > NamesLimit

\* C37: the bot's own nickname is never in the in-flight set, queued or
\* under analysis; no profile or interaction record of it is stored or
\* pending; no message handler proceeds for it and nothing is sent to it.
BotNeverProcessesItself ==
  /\ BotNickname \notin users_being_analyzed
  /\ ~Queued(BotNickname)
  /\ w_user # BotNickname
  /\ irc_nick # BotNickname
  /\ BotNickname \notin DOMAIN users
  /\ \A i \in 1..Len(write_queue) : write_queue[i][2].username # BotNickname
  /\ \A i \in 1..Len(conversations) : conversations[i].username # BotNickname
  /\ openings[BotNickname] = 0

\* C37 witness: the loop over the snapshot "@lea25 bot" has passed the
\* bot's own name without a full queue: lea25 alone was admitted.
BotNeverProcessesItselfWitness ==
  /\ irc_pc = "namreply" /\ irc_names = << >>
  /\ last_log["irc"] = "Systeme"
  /\ BotNickname \in channel_nicks
  /\ Queued(Lea25)
  /\ users_being_analyzed = {Lea25}

=============================================================================
